---- MODULE Spec2Model ----
(***************************************************************************)
(* Model of wedevctl: the per-network IP pool (package util), the BoltDB   *)
(* storage layer (wedev/storage.go) and the VirtualNetworkManager that     *)
(* orchestrates them.                                                      *)
(*                                                                         *)
(* Representation choices                                                  *)
(*  - an IPv4 address string "a.b.c.d" is the tuple <<a,b,c,d>> of its     *)
(*    bytes; the empty string is <<>>.  net.ParseIP / IP.String() are the  *)
(*    conversions between the two and round-trip on dotted quads.          *)
(*  - a CIDR string is a record [kind, ip, ones]; kind "v4" is a well      *)
(*    formed IPv4 block, "v6" a well formed IPv6 block, "bad" is text that *)
(*    net.ParseCIDR rejects.                                               *)
(*  - a Go string that is not an address (names, hosts) is a TLA+ string.  *)
(*  - uuid.New() is a fresh value: a per-bucket counter that never goes    *)
(*    back, so an id is never handed out twice.                            *)
(*  - a bbolt bucket is a function from keys to values; a db.Update        *)
(*    closure is one atomic step (it commits as a whole or not at all).    *)
(***************************************************************************)
EXTENDS Integers, Sequences, FiniteSets, TLC

VARIABLES
    db,       \* the BoltDB file: one function per bucket
    ipPools,  \* VirtualNetworkManager.ipPools: networkID -> IPPool
    ids,      \* source of fresh uuids, one counter per bucket
    ret,      \* what the last call returned to its caller
    pool,     \* a stand-alone util.IPPool driven directly by a caller
    held      \* addresses that caller got from AllocateNodeIP and still holds

vars == <<db, ipPools, ids, ret, pool, held>>

(***************************************************************************)
(* Bounds of the exploration                                               *)
(***************************************************************************)
MaxHeld == 5
MaxNetworks == 2
MaxServers == 2
MaxNodes == 3
MaxConfigs == 2

(***************************************************************************)
(* package util: addresses and CIDR blocks                                 *)
(***************************************************************************)
EmptyIP == <<>>

V4(a, b, c, d, n) == [kind |-> "v4", ip |-> <<a, b, c, d>>, ones |-> n]
BadCIDR == [kind |-> "bad", ip |-> <<>>, ones |-> 0]
V6CIDR == [kind |-> "v6", ip |-> <<>>, ones |-> 64]

Min(a, b) == IF a < b THEN a ELSE b
Max(a, b) == IF a > b THEN a ELSE b

\* bits of the mask that fall into byte i (1 = most significant)
MaskBits(ones, i) == Max(0, Min(8, ones - 8 * (i - 1)))

\* net.ParseCIDR: err for malformed text; otherwise the network address
\* (the address with the host bits cleared) and the mask size.
ParseCIDR(cidr) ==
    IF cidr.kind = "bad"
    THEN [err |-> TRUE, is4 |-> FALSE, IP |-> EmptyIP, ones |-> 0, bits |-> 0]
    ELSE IF cidr.kind = "v6"
    THEN [err |-> FALSE, is4 |-> FALSE, IP |-> EmptyIP, ones |-> cidr.ones, bits |-> 128]
    ELSE LET masked(i) == cidr.ip[i] - (cidr.ip[i] % (2 ^ (8 - MaskBits(cidr.ones, i))))
         IN  [err |-> FALSE, is4 |-> TRUE,
              IP  |-> <<masked(1), masked(2), masked(3), masked(4)>>,
              ones |-> cidr.ones, bits |-> 32]

\* increment: add one to the last byte, carrying into the bytes before it
RECURSIVE incrementFrom(_, _)
incrementFrom(ip, i) ==
    IF i = 0 THEN ip
    ELSE LET b   == (ip[i] + 1) % 256
             ip2 == [ip EXCEPT ![i] = b]
         IN  IF b > 0 THEN ip2 ELSE incrementFrom(ip2, i - 1)

increment(ip) == incrementFrom(ip, 4)

\* "for i := 0; i < n; i++ { ip = increment(ip) }": n applications of
\* increment, which is adding n with the carries running from the last byte
\* to the first and the carry out of the first byte dropped
incrementTimes(ip, n) ==
    LET d == ip[4] + n
        c == ip[3] + (d \div 256)
        b == ip[2] + (c \div 256)
        a == ip[1] + (b \div 256)
    IN  <<a % 256, b % 256, c % 256, d % 256>>

(***************************************************************************)
(* package util: IPPool                                                    *)
(***************************************************************************)
NoPool == [networkCIDR |-> BadCIDR, serverIP |-> EmptyIP, allocated |-> {},
           recycled |-> <<>>, nextIndex |-> 0, firstUsable |-> EmptyIP,
           lastUsable |-> EmptyIP, totalUsable |-> 0]

NewIPPool(networkCIDR) ==
    LET parsed == ParseCIDR(networkCIDR) IN
    IF parsed.err THEN [err |-> "InvalidCIDR", pool |-> NoPool]
    ELSE IF ~parsed.is4 THEN [err |-> "NotIPv4", pool |-> NoPool]
    ELSE LET totalIPsInt == 2 ^ (parsed.bits - parsed.ones) IN
         IF totalIPsInt > 2
         THEN LET firstUsable == increment(parsed.IP)
                  lastUsable  == incrementTimes(parsed.IP, totalIPsInt - 1)
              IN  [err  |-> "ok",
                   pool |-> [networkCIDR |-> networkCIDR,
                             serverIP    |-> firstUsable,
                             allocated   |-> {},
                             recycled    |-> <<>>,
                             nextIndex   |-> 1,
                             firstUsable |-> firstUsable,
                             lastUsable  |-> lastUsable,
                             totalUsable |-> totalIPsInt - 2]]
         ELSE [err |-> "TooSmall", pool |-> NoPool]

GetServerIP(p) == p.serverIP

\* AllocateNodeIP without "p.nextIndex++"
AllocateNodeIPStaleCursor(p) ==
    IF Len(p.recycled) > 0
    THEN LET ip == p.recycled[1] IN
         [err |-> "ok", ip |-> ip,
          pool |-> [p EXCEPT !.recycled = Tail(p.recycled),
                             !.allocated = p.allocated \cup {ip}]]
    ELSE IF p.nextIndex >= p.totalUsable
    THEN [err |-> "PoolExhausted", ip |-> EmptyIP, pool |-> p]
    ELSE LET ip == incrementTimes(p.firstUsable, p.nextIndex) IN
         [err |-> "ok", ip |-> ip,
          pool |-> [p EXCEPT !.allocated = p.allocated \cup {ip}]]

\* AllocateNodeIP taking the last element of recycledIPs instead of the first
AllocateNodeIPNewestFirst(p) ==
    IF Len(p.recycled) > 0
    THEN LET ip == p.recycled[Len(p.recycled)] IN
         [err |-> "ok", ip |-> ip,
          pool |-> [p EXCEPT !.recycled = SubSeq(p.recycled, 1, Len(p.recycled) - 1),
                             !.allocated = p.allocated \cup {ip}]]
    ELSE IF p.nextIndex >= p.totalUsable
    THEN [err |-> "PoolExhausted", ip |-> EmptyIP, pool |-> p]
    ELSE LET ip == incrementTimes(p.firstUsable, p.nextIndex) IN
         [err |-> "ok", ip |-> ip,
          pool |-> [p EXCEPT !.nextIndex = p.nextIndex + 1,
                             !.allocated = p.allocated \cup {ip}]]

AllocateNodeIP(p) ==
    IF Len(p.recycled) > 0
    THEN LET ip == p.recycled[1] IN
         [err |-> "ok", ip |-> ip,
          pool |-> [p EXCEPT !.recycled = Tail(p.recycled),
                             !.allocated = p.allocated \cup {ip}]]
    ELSE IF p.nextIndex >= p.totalUsable
    THEN [err |-> "PoolExhausted", ip |-> EmptyIP, pool |-> p]
    ELSE LET ip == incrementTimes(p.firstUsable, p.nextIndex) IN
         [err |-> "ok", ip |-> ip,
          pool |-> [p EXCEPT !.nextIndex = p.nextIndex + 1,
                             !.allocated = p.allocated \cup {ip}]]

MarkIPAllocated(p, ip) ==
    IF ip = EmptyIP THEN [err |-> "EmptyIP", pool |-> p]
    ELSE IF ip \in p.allocated THEN [err |-> "AlreadyAllocated", pool |-> p]
    ELSE [err |-> "ok", pool |-> [p EXCEPT !.allocated = p.allocated \cup {ip}]]

\* the inner loop of SyncNextIndex: the number of increments from
\* firstUsable until the address is met, or totalUsable when it is not met
\* within totalUsable increments
syncIndexOf(p, allocatedIP) ==
    LET hits == {i \in 0..(p.totalUsable - 1) :
                    incrementTimes(p.firstUsable, i) = allocatedIP}
    IN  IF hits = {} THEN p.totalUsable
        ELSE CHOOSE i \in hits : \A j \in hits : i <= j

\* SyncNextIndex leaving nextIndex where NewIPPool put it
SyncNextIndexKept(p) == p

SyncNextIndex(p) ==
    LET idxs == {syncIndexOf(p, a) : a \in p.allocated \ {p.serverIP}}
        maxIndex == IF idxs = {} THEN 0
                    ELSE Max(0, CHOOSE m \in idxs : \A k \in idxs : k <= m)
    IN  [p EXCEPT !.nextIndex = maxIndex + 1]

\* ReleaseNodeIP without the "IP is not allocated" test
ReleaseNodeIPUnchecked(p, ip) ==
    IF ip = p.serverIP THEN [err |-> "InvalidRelease", pool |-> p]
    ELSE [err |-> "ok",
          pool |-> [p EXCEPT !.allocated = p.allocated \ {ip},
                             !.recycled = Append(p.recycled, ip)]]

\* ReleaseNodeIP without the "cannot release server IP" test
ReleaseNodeIPNoHubCheck(p, ip) ==
    IF ip \notin p.allocated THEN [err |-> "InvalidRelease", pool |-> p]
    ELSE [err |-> "ok",
          pool |-> [p EXCEPT !.allocated = p.allocated \ {ip},
                             !.recycled = Append(p.recycled, ip)]]

\* ReleaseNodeIP without the append to recycledIPs
ReleaseNodeIPForget(p, ip) ==
    IF ip = p.serverIP THEN [err |-> "InvalidRelease", pool |-> p]
    ELSE IF ip \notin p.allocated THEN [err |-> "InvalidRelease", pool |-> p]
    ELSE [err |-> "ok", pool |-> [p EXCEPT !.allocated = p.allocated \ {ip}]]

ReleaseNodeIP(p, ip) ==
    IF ip = p.serverIP THEN [err |-> "InvalidRelease", pool |-> p]
    ELSE IF ip \notin p.allocated THEN [err |-> "InvalidRelease", pool |-> p]
    ELSE [err |-> "ok",
          pool |-> [p EXCEPT !.allocated = p.allocated \ {ip},
                             !.recycled = Append(p.recycled, ip)]]

GetAllocatedIPs(p) == p.allocated

\* GetState exporting the cursor of a fresh pool
GetStateFreshCursor(p) ==
    [NetworkCIDR |-> p.networkCIDR,
     ServerIP    |-> p.serverIP,
     Allocated   |-> p.allocated \ {p.serverIP},
     Recycled    |-> p.recycled,
     NextIndex   |-> 1]

\* IPPoolState.  Allocated is a JSON array in map-iteration order; its only
\* reader, RestoreIPPool, puts the elements back into a map, so it is kept
\* as the set of its elements.
GetState(p) ==
    [NetworkCIDR |-> p.networkCIDR,
     ServerIP    |-> p.serverIP,
     Allocated   |-> p.allocated \ {p.serverIP},
     Recycled    |-> p.recycled,
     NextIndex   |-> p.nextIndex]

\* RestoreIPPool without "pool.recycledIPs = state.Recycled"
RestoreIPPoolNoRecycled(state) ==
    LET new == NewIPPool(state.NetworkCIDR) IN
    IF new.err # "ok" THEN new
    ELSE [err  |-> "ok",
          pool |-> [new.pool EXCEPT
                      !.allocated = {state.ServerIP} \cup state.Allocated,
                      !.nextIndex = state.NextIndex]]

RestoreIPPool(state) ==
    LET new == NewIPPool(state.NetworkCIDR) IN
    IF new.err # "ok" THEN new
    ELSE [err  |-> "ok",
          pool |-> [new.pool EXCEPT
                      !.allocated = {state.ServerIP} \cup state.Allocated,
                      !.recycled  = state.Recycled,
                      !.nextIndex = state.NextIndex]]

(***************************************************************************)
(* wedev/storage.go: the buckets.  Every method below is one db.Update or  *)
(* db.View closure; it returns the bucket contents after the transaction   *)
(* (unchanged when the closure returned an error: bbolt rolls back), the   *)
(* error kind and the value handed back.                                   *)
(***************************************************************************)
EmptyFn == [x \in {} |-> 0]
Put(f, k, v) == [x \in (DOMAIN f) \cup {k} |-> IF x = k THEN v ELSE f[x]]
Del(f, k) == [x \in (DOMAIN f) \ {k} |-> f[x]]

\* networkID + ":" + name.  Network ids are uuids (36 characters, no colon),
\* so the pair determines the key and the key the pair.
NameKey(networkID, name) == <<networkID, name>>
\* []byte(name): a key that is a bare name, with no network id in front.
\* No network has id 0.
BareKey(name) == <<0, name>>

NoNetwork == [ID |-> 0, Name |-> "", CIDR |-> BadCIDR]
NoServer == [ID |-> 0, NetworkID |-> 0, Name |-> "", PublicAddress |-> "",
             Port |-> 0, VirtualIP |-> EmptyIP, PrivateKey |-> <<>>, PublicKey |-> <<>>]
NoNode == [ID |-> 0, NetworkID |-> 0, Name |-> "", PublicAddress |-> "",
           Port |-> 0, VirtualIP |-> EmptyIP, Type |-> "",
           PrivateKey |-> <<>>, PublicKey |-> <<>>]
NoState == [NetworkCIDR |-> BadCIDR, ServerIP |-> EmptyIP, Allocated |-> {},
            Recycled |-> <<>>, NextIndex |-> 0]
NoConfig == [ID |-> 0, NetworkID |-> 0, Version |-> 0, ContentHash |-> <<>>,
             Configs |-> <<>>]

SMResult(d, err, val) == [db |-> d, err |-> err, val |-> val]

\* the keys of a bucket in the order ForEach visits them (ascending)
RECURSIVE SortedKeys(_)
SortedKeys(S) ==
    IF S = {} THEN <<>>
    ELSE LET m == CHOOSE x \in S : \A y \in S : x <= y
         IN  <<m>> \o SortedKeys(S \ {m})

smCreateNetwork(d, id, name, cidr) ==
    IF name \in DOMAIN d.networksByName
    THEN SMResult(d, "DuplicateName", NoNetwork)
    ELSE LET network == [ID |-> id, Name |-> name, CIDR |-> cidr] IN
         SMResult([d EXCEPT !.networks = Put(@, id, network),
                            !.networksByName = Put(@, name, id)],
                  "ok", network)

smGetNetworkByName(d, name) ==
    IF name \notin DOMAIN d.networksByName
    THEN SMResult(d, "NotFound", NoNetwork)
    ELSE LET id == d.networksByName[name] IN
         IF id \notin DOMAIN d.networks
         THEN SMResult(d, "DataNotFound", NoNetwork)
         ELSE SMResult(d, "ok", d.networks[id])

smGetNetworkByID(d, id) ==
    IF id \notin DOMAIN d.networks
    THEN SMResult(d, "NotFound", NoNetwork)
    ELSE SMResult(d, "ok", d.networks[id])

smListNetworks(d) ==
    LET ks == SortedKeys(DOMAIN d.networks) IN
    SMResult(d, "ok", [i \in 1..Len(ks) |-> d.networks[ks[i]]])

\* DeleteNetwork whose loop over nodes has no "node.NetworkID == idStr" test
smDeleteNetworkEveryNode(d, name) ==
    IF name \notin DOMAIN d.networksByName
    THEN SMResult(d, "NotFound", NoNetwork)
    ELSE LET idStr == d.networksByName[name]
             srvs  == {k \in DOMAIN d.servers : d.servers[k].NetworkID = idStr}
             cfgs  == {k \in DOMAIN d.configs : d.configs[k].NetworkID = idStr}
         IN  SMResult(
               [networks       |-> Del(d.networks, idStr),
                networksByName |-> Del(d.networksByName, name),
                servers        |-> [k \in (DOMAIN d.servers) \ srvs |-> d.servers[k]],
                serversByName  |-> [k \in (DOMAIN d.serversByName) \
                                       {NameKey(idStr, d.servers[x].Name) : x \in srvs}
                                     |-> d.serversByName[k]],
                nodes          |-> EmptyFn,
                nodesByName    |-> [k \in (DOMAIN d.nodesByName) \
                                       {NameKey(idStr, d.nodes[x].Name) : x \in DOMAIN d.nodes}
                                     |-> d.nodesByName[k]],
                configs        |-> [k \in (DOMAIN d.configs) \ cfgs |-> d.configs[k]],
                configsByVer   |-> d.configsByVer,
                ipPools        |-> Del(d.ipPools, idStr)],
               "ok", NoNetwork)

\* The three ForEach loops delete the records whose NetworkID is the
\* network's, and for each the index entry under NameKey(id, its name).
\* The inner loop over configs_by_version deletes the entries whose value
\* is the network id.
smDeleteNetwork(d, name) ==
    IF name \notin DOMAIN d.networksByName
    THEN SMResult(d, "NotFound", NoNetwork)
    ELSE LET idStr == d.networksByName[name]
             srvs  == {k \in DOMAIN d.servers : d.servers[k].NetworkID = idStr}
             nds   == {k \in DOMAIN d.nodes : d.nodes[k].NetworkID = idStr}
             cfgs  == {k \in DOMAIN d.configs : d.configs[k].NetworkID = idStr}
             vers  == IF cfgs = {} THEN {}
                      ELSE {k \in DOMAIN d.configsByVer : d.configsByVer[k] = idStr}
         IN  SMResult(
               [networks       |-> Del(d.networks, idStr),
                networksByName |-> Del(d.networksByName, name),
                servers        |-> [k \in (DOMAIN d.servers) \ srvs |-> d.servers[k]],
                serversByName  |-> [k \in (DOMAIN d.serversByName) \
                                       {NameKey(idStr, d.servers[x].Name) : x \in srvs}
                                     |-> d.serversByName[k]],
                nodes          |-> [k \in (DOMAIN d.nodes) \ nds |-> d.nodes[k]],
                nodesByName    |-> [k \in (DOMAIN d.nodesByName) \
                                       {NameKey(idStr, d.nodes[x].Name) : x \in nds}
                                     |-> d.nodesByName[k]],
                configs        |-> [k \in (DOMAIN d.configs) \ cfgs |-> d.configs[k]],
                configsByVer   |-> [k \in (DOMAIN d.configsByVer) \ vers
                                     |-> d.configsByVer[k]],
                ipPools        |-> Del(d.ipPools, idStr)],
               "ok", NoNetwork)

\* CreateServer without the loop that looks for a hub of the network
smCreateServerNoHubCheck(d, id, networkID, name, publicAddress, port, virtualIP, privateKey, publicKey) ==
    IF networkID \notin DOMAIN d.networks
    THEN SMResult(d, "NetworkNotFound", NoServer)
    ELSE IF NameKey(networkID, name) \in DOMAIN d.serversByName
    THEN SMResult(d, "DuplicateName", NoServer)
    ELSE LET server == [ID |-> id, NetworkID |-> networkID, Name |-> name,
                        PublicAddress |-> publicAddress, Port |-> port,
                        VirtualIP |-> virtualIP,
                        PrivateKey |-> privateKey, PublicKey |-> publicKey]
         IN  SMResult([d EXCEPT !.servers = Put(@, id, server),
                                !.serversByName = Put(@, NameKey(networkID, name), id)],
                      "ok", server)

smCreateServer(d, id, networkID, name, publicAddress, port, virtualIP, privateKey, publicKey) ==
    IF networkID \notin DOMAIN d.networks
    THEN SMResult(d, "NetworkNotFound", NoServer)
    ELSE IF \E k \in DOMAIN d.servers : d.servers[k].NetworkID = networkID
    THEN SMResult(d, "AlreadyExists", NoServer)
    ELSE IF NameKey(networkID, name) \in DOMAIN d.serversByName
    THEN SMResult(d, "DuplicateName", NoServer)
    ELSE LET server == [ID |-> id, NetworkID |-> networkID, Name |-> name,
                        PublicAddress |-> publicAddress, Port |-> port,
                        VirtualIP |-> virtualIP,
                        PrivateKey |-> privateKey, PublicKey |-> publicKey]
         IN  SMResult([d EXCEPT !.servers = Put(@, id, server),
                                !.serversByName = Put(@, NameKey(networkID, name), id)],
                      "ok", server)

smGetServerByName(d, networkID, name) ==
    IF NameKey(networkID, name) \notin DOMAIN d.serversByName
    THEN SMResult(d, "NotFound", NoServer)
    ELSE LET id == d.serversByName[NameKey(networkID, name)] IN
         IF id \notin DOMAIN d.servers
         THEN SMResult(d, "DataNotFound", NoServer)
         ELSE SMResult(d, "ok", d.servers[id])

\* ForEach keeps going after a match, so the last match in key order stays
smGetServerByNetworkID(d, networkID) ==
    LET ms == {k \in DOMAIN d.servers : d.servers[k].NetworkID = networkID} IN
    IF ms = {} THEN SMResult(d, "NotFound", NoServer)
    ELSE SMResult(d, "ok", d.servers[CHOOSE k \in ms : \A j \in ms : j <= k])

smUpdateServer(d, id, publicAddress, port) ==
    IF id \notin DOMAIN d.servers
    THEN SMResult(d, "NotFound", NoServer)
    ELSE LET server == [d.servers[id] EXCEPT !.PublicAddress = publicAddress,
                                             !.Port = port]
         IN  SMResult([d EXCEPT !.servers = Put(@, id, server)], "ok", server)

\* deletes the record, and from servers_by_name the key []byte(serverName)
smDeleteServer(d, networkID) ==
    LET ms == {k \in DOMAIN d.servers : d.servers[k].NetworkID = networkID} IN
    IF ms = {} THEN SMResult(d, "NotFound", NoServer)
    ELSE LET serverID   == CHOOSE k \in ms : \A j \in ms : j <= k
             serverName == d.servers[serverID].Name
         IN  SMResult([d EXCEPT !.servers = Del(@, serverID),
                                !.serversByName = Del(@, BareKey(serverName))],
                      "ok", NoServer)

smCreateNode(d, id, networkID, name, publicAddress, port, virtualIP, nodeType, privateKey, publicKey) ==
    IF networkID \notin DOMAIN d.networks
    THEN SMResult(d, "NetworkNotFound", NoNode)
    ELSE IF NameKey(networkID, name) \in DOMAIN d.nodesByName
    THEN SMResult(d, "DuplicateName", NoNode)
    ELSE LET node == [ID |-> id, NetworkID |-> networkID, Name |-> name,
                      PublicAddress |-> publicAddress, Port |-> port,
                      VirtualIP |-> virtualIP, Type |-> nodeType,
                      PrivateKey |-> privateKey, PublicKey |-> publicKey]
         IN  SMResult([d EXCEPT !.nodes = Put(@, id, node),
                                !.nodesByName = Put(@, NameKey(networkID, name), id)],
                      "ok", node)

smGetNodeByName(d, networkID, name) ==
    IF NameKey(networkID, name) \notin DOMAIN d.nodesByName
    THEN SMResult(d, "NotFound", NoNode)
    ELSE LET id == d.nodesByName[NameKey(networkID, name)] IN
         IF id \notin DOMAIN d.nodes
         THEN SMResult(d, "DataNotFound", NoNode)
         ELSE SMResult(d, "ok", d.nodes[id])

smListNodesByNetworkID(d, networkID) ==
    LET ks == SortedKeys({k \in DOMAIN d.nodes : d.nodes[k].NetworkID = networkID}) IN
    SMResult(d, "ok", [i \in 1..Len(ks) |-> d.nodes[ks[i]]])

\* UpdateNode that also clears the member's assigned address
smUpdateNodeClearsIP(d, id, publicAddress, port, nodeType) ==
    IF id \notin DOMAIN d.nodes
    THEN SMResult(d, "NotFound", NoNode)
    ELSE LET node == [d.nodes[id] EXCEPT !.PublicAddress = publicAddress,
                                         !.Port = port, !.Type = nodeType,
                                         !.VirtualIP = EmptyIP]
         IN  SMResult([d EXCEPT !.nodes = Put(@, id, node)], "ok", node)

smUpdateNode(d, id, publicAddress, port, nodeType) ==
    IF id \notin DOMAIN d.nodes
    THEN SMResult(d, "NotFound", NoNode)
    ELSE LET node == [d.nodes[id] EXCEPT !.PublicAddress = publicAddress,
                                         !.Port = port, !.Type = nodeType]
         IN  SMResult([d EXCEPT !.nodes = Put(@, id, node)], "ok", node)

smDeleteNode(d, networkID, name) ==
    IF NameKey(networkID, name) \notin DOMAIN d.nodesByName
    THEN SMResult(d, "NotFound", NoNode)
    ELSE LET id == d.nodesByName[NameKey(networkID, name)] IN
         SMResult([d EXCEPT !.nodes = Del(@, id),
                            !.nodesByName = Del(@, NameKey(networkID, name))],
                  "ok", NoNode)

\* SaveConfigVersion with "c.Version > nextVer" for ">=": a stored version 1
\* does not raise the next version
smSaveConfigVersionStrict(d, id, networkID, contentHash, configs) ==
    LET vs      == {d.configs[k].Version : k \in {j \in DOMAIN d.configs :
                                                   d.configs[j].NetworkID = networkID}}
        big     == {v \in vs : v > 1}
        nextVer == IF big = {} THEN 1
                   ELSE (CHOOSE v \in big : \A w \in big : w <= v) + 1
        config  == [ID |-> id, NetworkID |-> networkID, Version |-> nextVer,
                    ContentHash |-> contentHash, Configs |-> configs]
    IN  SMResult([d EXCEPT !.configs = Put(@, id, config)], "ok", config)

\* the next version is one more than the greatest version stored for the
\* network (1 when there is none)
smSaveConfigVersion(d, id, networkID, contentHash, configs) ==
    LET vs      == {d.configs[k].Version : k \in {j \in DOMAIN d.configs :
                                                   d.configs[j].NetworkID = networkID}}
        big     == {v \in vs : v >= 1}
        nextVer == IF big = {} THEN 1
                   ELSE (CHOOSE v \in big : \A w \in big : w <= v) + 1
        config  == [ID |-> id, NetworkID |-> networkID, Version |-> nextVer,
                    ContentHash |-> contentHash, Configs |-> configs]
    IN  SMResult([d EXCEPT !.configs = Put(@, id, config)], "ok", config)

\* GetLatestConfigVersion with "<" for ">": the record with the least version
smGetLatestConfigVersionOldest(d, networkID) ==
    LET ks == {k \in DOMAIN d.configs : d.configs[k].NetworkID = networkID} IN
    IF ks = {} THEN SMResult(d, "NotFound", NoConfig)
    ELSE LET low == {k \in ks : \A j \in ks : d.configs[k].Version <= d.configs[j].Version}
         IN  SMResult(d, "ok", d.configs[CHOOSE k \in low : \A j \in low : k <= j])

\* the first record in key order among those with the greatest version
smGetLatestConfigVersion(d, networkID) ==
    LET ks == {k \in DOMAIN d.configs : d.configs[k].NetworkID = networkID} IN
    IF ks = {} THEN SMResult(d, "NotFound", NoConfig)
    ELSE LET top == {k \in ks : \A j \in ks : d.configs[j].Version <= d.configs[k].Version}
         IN  SMResult(d, "ok", d.configs[CHOOSE k \in top : \A j \in top : k <= j])

\* the last record in key order with that version
smGetConfigVersion(d, networkID, version) ==
    LET ks == {k \in DOMAIN d.configs : /\ d.configs[k].NetworkID = networkID
                                         /\ d.configs[k].Version = version} IN
    IF ks = {} THEN SMResult(d, "NotFound", NoConfig)
    ELSE SMResult(d, "ok", d.configs[CHOOSE k \in ks : \A j \in ks : j <= k])

\* slices.SortFunc by Version over the records in key order
RECURSIVE sortByVersion(_, _)
sortByVersion(d, ks) ==
    IF ks = {} THEN <<>>
    ELSE LET low == {k \in ks : \A j \in ks : d.configs[k].Version <= d.configs[j].Version}
             k0  == CHOOSE k \in low : \A j \in low : k <= j
         IN  <<d.configs[k0]>> \o sortByVersion(d, ks \ {k0})

smListConfigVersions(d, networkID) ==
    SMResult(d, "ok",
             sortByVersion(d, {k \in DOMAIN d.configs : d.configs[k].NetworkID = networkID}))

smSaveIPPoolState(d, networkID, state) ==
    SMResult([d EXCEPT !.ipPools = Put(@, networkID, state)], "ok", state)

smGetIPPoolState(d, networkID) ==
    IF networkID \notin DOMAIN d.ipPools
    THEN SMResult(d, "NotFound", NoState)
    ELSE SMResult(d, "ok", d.ipPools[networkID])

(***************************************************************************)
(* What a call hands back to its caller: the operation, the network and    *)
(* entity it was addressed to, the error kind ("ok" for nil) and the       *)
(* address it returned or was given.                                       *)
(***************************************************************************)
Result(op, net, name, err, ip) ==
    [op |-> op, net |-> net, name |-> name, err |-> err, ip |-> ip]

NoResult == Result("none", "", "", "ok", EmptyIP)

(***************************************************************************)
(* package util: the validator.  A name or host is a sample string; the    *)
(* sets below say which samples have the property the code tests for.      *)
(***************************************************************************)
\* strings matching ^[a-zA-Z][a-zA-Z0-9]*$
NamePatternSamples == {"x", "y"}
\* strings net.ParseIP accepts
IPLiteralSamples == {"203.0.113.7"}
\* strings containing a space
SpaceSamples == {"bad host"}
\* strings containing a dot
DotSamples == {"203.0.113.7", "vpn.example.com"}

IsValidNetworkName(name) ==
    IF name = "" THEN FALSE
    ELSE name \in NamePatternSamples

IsValidCIDR(cidr) == ~ParseCIDR(cidr).err

IsValidPublicAddress(addr) ==
    IF addr = "" THEN FALSE
    ELSE IF addr \in IPLiteralSamples THEN TRUE
    ELSE IF addr \in SpaceSamples THEN FALSE
    ELSE IF addr \notin DotSamples /\ addr # "localhost" THEN FALSE
    ELSE TRUE

\* GenerateWireGuardKeys: two fresh random 32-byte strings.  tag names the
\* call, so that no two calls give the same pair.
GenerateWireGuardKeys(tag) ==
    [PrivateKey |-> <<"priv">> \o tag, PublicKey |-> <<"pub">> \o tag]

DefaultPort == 51820
NodeTypePeer == "peer"
NodeTypeRoute == "route"

(***************************************************************************)
(* VirtualNetworkManager.  Each method is a function of the database d,    *)
(* the pool cache pools and the uuid counters i; it returns the three      *)
(* after the call and what the call returned.  fault names what goes wrong *)
(* outside the program's control during the call ("none": nothing).        *)
(***************************************************************************)
MResult(d, pools, i, r) == [db |-> d, ipPools |-> pools, ids |-> i, ret |-> r]

\* "for _, node := range nodes { MarkIPAllocated(node.VirtualIP) }", a
\* failed marking being logged and skipped
RECURSIVE markNodes(_, _)
markNodes(p, nodes) ==
    IF nodes = <<>> THEN p
    ELSE markNodes(MarkIPAllocated(p, Head(nodes).VirtualIP).pool, Tail(nodes))

\* the tail of ensureIPPool: the rebuilt pool is cached, and saved when the
\* database holds no snapshot of it
cacheRebuilt(d, pools, networkID, ipPool) ==
    [err     |-> "ok",
     db      |-> IF smGetIPPoolState(d, networkID).err # "ok"
                 THEN smSaveIPPoolState(d, networkID, GetState(ipPool)).db
                 ELSE d,
     ipPools |-> Put(pools, networkID, ipPool)]

\* the middle of ensureIPPool: the new pool is filled from the records
rebuildIPPool(d, pools, networkID, new) ==
    LET server == smGetServerByNetworkID(d, networkID)
        marked == IF server.err = "ok"
                  THEN MarkIPAllocated(new, server.val.VirtualIP)
                  ELSE [err |-> "ok", pool |-> new]
    IN
    IF marked.err # "ok"
    THEN [err |-> "MarkFailed", db |-> d, ipPools |-> pools]
    ELSE cacheRebuilt(d, pools, networkID,
                      SyncNextIndex(markNodes(marked.pool,
                                              smListNodesByNetworkID(d, networkID).val)))

\* ensureIPPool looking at the stored snapshot before the cache
ensureIPPoolSnapshotFirst(d, pools, networkID, networkCIDR) ==
    LET saved    == smGetIPPoolState(d, networkID)
        restored == RestoreIPPool(saved.val)
    IN
    IF saved.err = "ok" /\ restored.err = "ok"
    THEN [err |-> "ok", db |-> d, ipPools |-> Put(pools, networkID, restored.pool)]
    ELSE IF networkID \in DOMAIN pools
    THEN [err |-> "ok", db |-> d, ipPools |-> pools]
    ELSE
    LET new == NewIPPool(networkCIDR) IN
    IF new.err # "ok"
    THEN [err |-> "ValidationError", db |-> d, ipPools |-> pools]
    ELSE rebuildIPPool(d, pools, networkID, new.pool)

ensureIPPool(d, pools, networkID, networkCIDR) ==
    IF networkID \in DOMAIN pools
    THEN [err |-> "ok", db |-> d, ipPools |-> pools]
    ELSE
    LET saved    == smGetIPPoolState(d, networkID)
        restored == RestoreIPPool(saved.val)
    IN
    IF saved.err = "ok" /\ restored.err = "ok"
    THEN [err |-> "ok", db |-> d, ipPools |-> Put(pools, networkID, restored.pool)]
    ELSE
    LET new == NewIPPool(networkCIDR) IN
    IF new.err # "ok"
    THEN [err |-> "ValidationError", db |-> d, ipPools |-> pools]
    ELSE rebuildIPPool(d, pools, networkID, new.pool)

\* CreateVirtualNetwork handing out again the id of a deleted network
vnmCreateVirtualNetworkReusedID(d, pools, i, name, cidr) ==
    LET fail(e) == MResult(d, pools, i, Result("CreateVirtualNetwork", name, "", e, EmptyIP)) IN
    IF ~IsValidNetworkName(name) THEN fail("ValidationError")
    ELSE IF ~IsValidCIDR(cidr) THEN fail("ValidationError")
    ELSE
    LET new == NewIPPool(cidr) IN
    IF new.err # "ok" THEN fail("ValidationError")
    ELSE
    LET id      == CHOOSE k \in 1..(i.net + 1) :
                       /\ k \notin DOMAIN d.networks
                       /\ \A j \in 1..(k - 1) : j \in DOMAIN d.networks
        created == smCreateNetwork(d, id, name, cidr)
    IN
    IF created.err # "ok" THEN fail(created.err)
    ELSE MResult(created.db, Put(pools, id, new.pool), [i EXCEPT !.net = Max(@, id)],
                 Result("CreateVirtualNetwork", name, "", "ok", EmptyIP))

vnmCreateVirtualNetwork(d, pools, i, name, cidr) ==
    LET fail(e) == MResult(d, pools, i, Result("CreateVirtualNetwork", name, "", e, EmptyIP)) IN
    IF ~IsValidNetworkName(name) THEN fail("ValidationError")
    ELSE IF ~IsValidCIDR(cidr) THEN fail("ValidationError")
    ELSE
    LET new == NewIPPool(cidr) IN
    IF new.err # "ok" THEN fail("ValidationError")
    ELSE
    LET id      == i.net + 1
        created == smCreateNetwork(d, id, name, cidr)
    IN
    IF created.err # "ok" THEN fail(created.err)
    ELSE MResult(created.db, Put(pools, id, new.pool), [i EXCEPT !.net = id],
                 Result("CreateVirtualNetwork", name, "", "ok", EmptyIP))

vnmDeleteVirtualNetwork(d, pools, i, name) ==
    LET network == smGetNetworkByName(d, name) IN
    IF network.err # "ok"
    THEN MResult(d, pools, i, Result("DeleteVirtualNetwork", name, "", network.err, EmptyIP))
    ELSE LET deleted == smDeleteNetwork(d, name) IN
         MResult(deleted.db, Del(pools, network.val.ID), i,
                 Result("DeleteVirtualNetwork", name, "", deleted.err, EmptyIP))

\* CreateServer once the pool is at hand: ens is what ensureIPPool returned
createServerInPool(i, network, serverName, publicAddress, port, ens) ==
    LET fail(e) ==
            MResult(ens.db, ens.ipPools, i,
                    Result("CreateServer", network.Name, serverName, e, EmptyIP))
    IN
    IF ens.err # "ok" THEN fail(ens.err)
    ELSE
    LET serverIP == GetServerIP(ens.ipPools[network.ID])
        id       == i.srv + 1
        keys     == GenerateWireGuardKeys(<<"srv", id>>)
        port2    == IF port = 0 THEN DefaultPort ELSE port
        created  == smCreateServer(ens.db, id, network.ID, serverName, publicAddress,
                                   port2, serverIP, keys.PrivateKey, keys.PublicKey)
    IN
    IF created.err # "ok" THEN fail(created.err)
    ELSE
    LET saved == smSaveIPPoolState(created.db, network.ID,
                                   GetState(ens.ipPools[network.ID]))
    IN  MResult(saved.db, ens.ipPools, [i EXCEPT !.srv = id],
                Result("CreateServer", network.Name, serverName, "ok",
                       created.val.VirtualIP))

vnmCreateServer(d, pools, i, networkName, serverName, publicAddress, port) ==
    LET fail(e) ==
            MResult(d, pools, i, Result("CreateServer", networkName, serverName, e, EmptyIP))
        network == smGetNetworkByName(d, networkName)
    IN
    IF network.err # "ok" THEN fail(network.err)
    ELSE IF ~IsValidPublicAddress(publicAddress) THEN fail("ValidationError")
    ELSE createServerInPool(i, network.val, serverName, publicAddress, port,
                            ensureIPPool(d, pools, network.val.ID, network.val.CIDR))

vnmUpdateServer(d, pools, i, networkName, publicAddress, port) ==
    LET fail(e) == MResult(d, pools, i, Result("UpdateServer", networkName, "", e, EmptyIP))
        network == smGetNetworkByName(d, networkName)
    IN
    IF network.err # "ok" THEN fail(network.err)
    ELSE
    LET server == smGetServerByNetworkID(d, network.val.ID) IN
    IF server.err # "ok" THEN fail(server.err)
    ELSE IF ~IsValidPublicAddress(publicAddress) THEN fail("ValidationError")
    ELSE
    LET updated == smUpdateServer(d, server.val.ID, publicAddress, port) IN
    IF updated.err # "ok" THEN fail(updated.err)
    ELSE
    LET again == smGetServerByName(updated.db, server.val.NetworkID, server.val.Name) IN
    MResult(updated.db, pools, i,
            Result("UpdateServer", networkName, server.val.Name, again.err,
                   again.val.VirtualIP))

vnmDeleteServer(d, pools, i, networkName) ==
    LET network == smGetNetworkByName(d, networkName) IN
    IF network.err # "ok"
    THEN MResult(d, pools, i, Result("DeleteServer", networkName, "", network.err, EmptyIP))
    ELSE LET deleted == smDeleteServer(d, network.val.ID) IN
         MResult(deleted.db, pools, i,
                 Result("DeleteServer", networkName, "", deleted.err, EmptyIP))

\* CreateNode without "ReleaseNodeIP(nodeIP)" on its error paths
createNodeInPoolKeepsIP(i, network, nodeName, publicAddress, port, nodeType, fault, ens) ==
    LET fail(p2, e) ==
            MResult(ens.db, p2, i, Result("CreateNode", network.Name, nodeName, e, EmptyIP))
        nid   == network.ID
        alloc == AllocateNodeIP(ens.ipPools[nid])
    IN
    IF ens.err # "ok" THEN fail(ens.ipPools, ens.err)
    ELSE IF alloc.err # "ok" THEN fail(ens.ipPools, alloc.err)
    ELSE
    LET nodeIP   == alloc.ip
        pools2   == Put(ens.ipPools, nid, alloc.pool)
        released == pools2
    IN
    IF fault = "keygen" THEN fail(released, "KeyGenError")
    ELSE
    LET id       == i.node + 1
        keys     == GenerateWireGuardKeys(<<"node", id>>)
        port2    == IF port = 0 THEN DefaultPort ELSE port
        type2    == IF nodeType = "" THEN NodeTypePeer ELSE nodeType
        created  == smCreateNode(ens.db, id, nid, nodeName, publicAddress, port2, nodeIP,
                                 type2, keys.PrivateKey, keys.PublicKey)
    IN
    IF created.err # "ok" THEN fail(released, created.err)
    ELSE IF fault = "crashAfterRecord"
    THEN MResult(created.db, EmptyFn, [i EXCEPT !.node = id],
                 Result("CreateNode", network.Name, nodeName, "Crash", nodeIP))
    ELSE IF fault = "saveFails"
    THEN MResult(created.db, pools2, [i EXCEPT !.node = id],
                 Result("CreateNode", network.Name, nodeName, "IOError", EmptyIP))
    ELSE
    LET saved == smSaveIPPoolState(created.db, nid, GetState(alloc.pool)) IN
    MResult(saved.db, pools2, [i EXCEPT !.node = id],
            Result("CreateNode", network.Name, nodeName, "ok", nodeIP))

\* CreateNode once the pool is at hand: ens is what ensureIPPool returned
createNodeInPool(i, network, nodeName, publicAddress, port, nodeType, fault, ens) ==
    LET fail(p2, e) ==
            MResult(ens.db, p2, i, Result("CreateNode", network.Name, nodeName, e, EmptyIP))
        nid   == network.ID
        alloc == AllocateNodeIP(ens.ipPools[nid])
    IN
    IF ens.err # "ok" THEN fail(ens.ipPools, ens.err)
    ELSE IF alloc.err # "ok" THEN fail(ens.ipPools, alloc.err)
    ELSE
    LET nodeIP   == alloc.ip
        pools2   == Put(ens.ipPools, nid, alloc.pool)
        released == Put(ens.ipPools, nid, ReleaseNodeIP(alloc.pool, nodeIP).pool)
    IN
    IF fault = "keygen" THEN fail(released, "KeyGenError")
    ELSE
    LET id       == i.node + 1
        keys     == GenerateWireGuardKeys(<<"node", id>>)
        port2    == IF port = 0 THEN DefaultPort ELSE port
        type2    == IF nodeType = "" THEN NodeTypePeer ELSE nodeType
        created  == smCreateNode(ens.db, id, nid, nodeName, publicAddress, port2, nodeIP,
                                 type2, keys.PrivateKey, keys.PublicKey)
    IN
    IF created.err # "ok" THEN fail(released, created.err)
    ELSE IF fault = "crashAfterRecord"
    THEN MResult(created.db, EmptyFn, [i EXCEPT !.node = id],
                 Result("CreateNode", network.Name, nodeName, "Crash", nodeIP))
    ELSE IF fault = "saveFails"
    THEN MResult(created.db, pools2, [i EXCEPT !.node = id],
                 Result("CreateNode", network.Name, nodeName, "IOError", EmptyIP))
    ELSE
    LET saved == smSaveIPPoolState(created.db, nid, GetState(alloc.pool)) IN
    MResult(saved.db, pools2, [i EXCEPT !.node = id],
            Result("CreateNode", network.Name, nodeName, "ok", nodeIP))

vnmCreateNode(d, pools, i, networkName, nodeName, publicAddress, port, nodeType, fault) ==
    LET fail(e) ==
            MResult(d, pools, i, Result("CreateNode", networkName, nodeName, e, EmptyIP))
        network == smGetNetworkByName(d, networkName)
    IN
    IF network.err # "ok" THEN fail(network.err)
    ELSE IF nodeType = NodeTypePeer /\ publicAddress = "" THEN fail("ValidationError")
    ELSE IF publicAddress # "" /\ ~IsValidPublicAddress(publicAddress)
    THEN fail("ValidationError")
    ELSE createNodeInPool(i, network.val, nodeName, publicAddress, port, nodeType, fault,
                          ensureIPPool(d, pools, network.val.ID, network.val.CIDR))

\* UpdateNode testing the stored type of the member, not the requested one
vnmUpdateNodeStoredType(d, pools, i, networkName, nodeName, publicAddress, port, nodeType) ==
    LET fail(e) == MResult(d, pools, i, Result("UpdateNode", networkName, nodeName, e, EmptyIP))
        network == smGetNetworkByName(d, networkName)
    IN
    IF network.err # "ok" THEN fail(network.err)
    ELSE
    LET node == smGetNodeByName(d, network.val.ID, nodeName) IN
    IF node.err # "ok" THEN fail(node.err)
    ELSE IF node.val.Type = NodeTypePeer /\ publicAddress = "" THEN fail("ValidationError")
    ELSE IF publicAddress # "" /\ ~IsValidPublicAddress(publicAddress)
    THEN fail("ValidationError")
    ELSE
    LET updated == smUpdateNode(d, node.val.ID, publicAddress, port, nodeType) IN
    IF updated.err # "ok" THEN fail(updated.err)
    ELSE
    LET again == smGetNodeByName(updated.db, network.val.ID, nodeName) IN
    MResult(updated.db, pools, i,
            Result("UpdateNode", networkName, nodeName, again.err, again.val.VirtualIP))

vnmUpdateNode(d, pools, i, networkName, nodeName, publicAddress, port, nodeType) ==
    LET fail(e) == MResult(d, pools, i, Result("UpdateNode", networkName, nodeName, e, EmptyIP))
        network == smGetNetworkByName(d, networkName)
    IN
    IF network.err # "ok" THEN fail(network.err)
    ELSE
    LET node == smGetNodeByName(d, network.val.ID, nodeName) IN
    IF node.err # "ok" THEN fail(node.err)
    ELSE IF nodeType = NodeTypePeer /\ publicAddress = "" THEN fail("ValidationError")
    ELSE IF publicAddress # "" /\ ~IsValidPublicAddress(publicAddress)
    THEN fail("ValidationError")
    ELSE
    LET updated == smUpdateNode(d, node.val.ID, publicAddress, port, nodeType) IN
    IF updated.err # "ok" THEN fail(updated.err)
    ELSE
    LET again == smGetNodeByName(updated.db, network.val.ID, nodeName) IN
    MResult(updated.db, pools, i,
            Result("UpdateNode", networkName, nodeName, again.err, again.val.VirtualIP))

\* DeleteNode storing the snapshot of the pool as it was before the release
deleteNodeInPoolStaleSnapshot(i, network, node, fault, ens) ==
    LET nid      == network.ID
        hasPool  == node.NetworkID \in DOMAIN ens.ipPools
        ipPool   == IF hasPool
                    THEN ReleaseNodeIP(ens.ipPools[node.NetworkID], node.VirtualIP).pool
                    ELSE NoPool
        pools2   == IF hasPool THEN Put(ens.ipPools, node.NetworkID, ipPool)
                    ELSE ens.ipPools
        saved    == IF hasPool
                    THEN smSaveIPPoolState(ens.db, nid,
                                           GetState(ens.ipPools[node.NetworkID])).db
                    ELSE ens.db
    IN
    IF ens.err # "ok"
    THEN MResult(ens.db, ens.ipPools, i,
                 Result("DeleteNode", network.Name, node.Name, ens.err, EmptyIP))
    ELSE
    LET deleted == smDeleteNode(saved, nid, node.Name) IN
    MResult(deleted.db, pools2, i,
            Result("DeleteNode", network.Name, node.Name, deleted.err, node.VirtualIP))

\* DeleteNode once the pool is at hand: ens is what ensureIPPool returned
deleteNodeInPool(i, network, node, fault, ens) ==
    LET fail(d2, p2, e) ==
            MResult(d2, p2, i, Result("DeleteNode", network.Name, node.Name, e, EmptyIP))
        nid      == network.ID
        hasPool  == node.NetworkID \in DOMAIN ens.ipPools
        ipPool   == IF hasPool
                    THEN ReleaseNodeIP(ens.ipPools[node.NetworkID], node.VirtualIP).pool
                    ELSE NoPool
        pools2   == IF hasPool THEN Put(ens.ipPools, node.NetworkID, ipPool)
                    ELSE ens.ipPools
        saved    == IF hasPool THEN smSaveIPPoolState(ens.db, nid, GetState(ipPool)).db
                    ELSE ens.db
    IN
    IF ens.err # "ok" THEN fail(ens.db, ens.ipPools, ens.err)
    ELSE IF hasPool /\ fault = "saveFails" THEN fail(ens.db, pools2, "IOError")
    ELSE IF fault = "crashAfterSave"
    THEN MResult(saved, EmptyFn, i,
                 Result("DeleteNode", network.Name, node.Name, "Crash", node.VirtualIP))
    ELSE IF fault = "deleteFails" THEN fail(saved, pools2, "IOError")
    ELSE
    LET deleted == smDeleteNode(saved, nid, node.Name) IN
    MResult(deleted.db, pools2, i,
            Result("DeleteNode", network.Name, node.Name, deleted.err, node.VirtualIP))

vnmDeleteNode(d, pools, i, networkName, nodeName, fault) ==
    LET fail(e) ==
            MResult(d, pools, i, Result("DeleteNode", networkName, nodeName, e, EmptyIP))
        network == smGetNetworkByName(d, networkName)
        node    == smGetNodeByName(d, network.val.ID, nodeName)
    IN
    IF network.err # "ok" THEN fail(network.err)
    ELSE IF node.err # "ok" THEN fail(node.err)
    ELSE deleteNodeInPool(i, network.val, node.val, fault,
                          ensureIPPool(d, pools, network.val.ID, network.val.CIDR))

\* ValidateEndpoint: TRUE when it returns nil.  No method of the manager
\* calls it.
ValidateEndpoint(address, port) ==
    IF address = "" THEN FALSE
    ELSE IF port < 1 \/ port > 65535 THEN FALSE
    ELSE TRUE

(***************************************************************************)
(* WireGuardConfigGenerator.  A document is kept as its sections in the    *)
(* order they are written: the [Interface] section, then the [Peer]        *)
(* sections; a line that is left out is the empty tuple.  An address range *)
(* "ip/32" is the CIDR record of that address.                             *)
(***************************************************************************)
FormatEndpoint(address, port) == <<address, port>>
NoEndpoint == <<>>

HostRange(ip) == [kind |-> "v4", ip |-> ip, ones |-> 32]

PeerSection(publicKey, allowedIPs, endpoint) ==
    [PublicKey |-> publicKey, AllowedIPs |-> allowedIPs, Endpoint |-> endpoint]

generateServerConfig(server, nodes) ==
    LET peer(node) ==
            PeerSection(node.PublicKey, HostRange(node.VirtualIP),
                        IF node.Type = NodeTypePeer /\ node.PublicAddress # ""
                        THEN FormatEndpoint(node.PublicAddress, node.Port)
                        ELSE NoEndpoint)
    IN  [Interface |-> [PrivateKey |-> server.PrivateKey,
                        Address    |-> HostRange(server.VirtualIP),
                        ListenPort |-> server.Port,
                        Forwarding |-> TRUE],
         Peers |-> [k \in 1..Len(nodes) |-> peer(nodes[k])]]

generateNodeConfig(network, server, node, allNodes) ==
    LET peer(other) ==
            PeerSection(other.PublicKey, HostRange(other.VirtualIP),
                        IF other.PublicAddress # ""
                        THEN FormatEndpoint(other.PublicAddress, other.Port)
                        ELSE NoEndpoint)
        otherPeers(other) == other.ID # node.ID /\ other.Type = NodeTypePeer
        allPeers(other) == other.Type = NodeTypePeer
        others == SelectSeq(allNodes, otherPeers)
        peers  == SelectSeq(allNodes, allPeers)
    IN  [Interface |-> [PrivateKey |-> node.PrivateKey,
                        Address    |-> HostRange(node.VirtualIP),
                        ListenPort |-> node.Port,
                        Forwarding |-> FALSE],
         Peers |-> <<PeerSection(server.PublicKey, network.CIDR,
                                 IF server.PublicAddress # ""
                                 THEN FormatEndpoint(server.PublicAddress, server.Port)
                                 ELSE NoEndpoint)>>
                   \o (IF node.Type = NodeTypePeer
                       THEN [k \in 1..Len(others) |-> peer(others[k])] ELSE <<>>)
                   \o (IF node.Type = NodeTypeRoute
                       THEN [k \in 1..Len(peers) |-> peer(peers[k])] ELSE <<>>)]

\* sort.Strings over the sample names
SortedNames == <<"a", "b", "c", "h">>

\* sort.Strings(names): the names in ascending order, whatever order they
\* came in
sortStringsKeepsOrder(names) == names

sortStrings(names) ==
    LET present(name) == \E k \in 1..Len(names) : names[k] = name
    IN  SelectSeq(SortedNames, present)

\* "for name := range configs" visits the keys in an order the runtime
\* picks; order is that order.  The result is the sha256 of the
\* concatenation, in sorted name order, of name ":" config.  The digest is
\* kept as the text it is the digest of: equal text gives an equal digest
\* and different text a different one.
calculateConfigHashIn(configs, order) ==
    LET names == sortStrings(order)
    IN  [k \in 1..Len(names) |-> <<names[k], configs[names[k]]>>]

\* the orders in which the keys of a map can be visited
RangeOrders(S) ==
    {o \in [1..Cardinality(S) -> S] :
        \A j, k \in 1..Cardinality(S) : j # k => o[j] # o[k]}

calculateConfigHash(configs) ==
    calculateConfigHashIn(configs, CHOOSE o \in RangeOrders(DOMAIN configs) : TRUE)

\* GenerateConfigs going on without a hub, with the members' documents only
GenerateConfigsHubOptional(d, networkName) ==
    LET network == smGetNetworkByName(d, networkName) IN
    IF network.err # "ok" THEN [err |-> network.err, configs |-> EmptyFn, hash |-> <<>>]
    ELSE
    LET server == smGetServerByNetworkID(d, network.val.ID)
        nodes  == smListNodesByNetworkID(d, network.val.ID).val
        names  == {nodes[k].Name : k \in 1..Len(nodes)}
        last(name) == nodes[CHOOSE k \in 1..Len(nodes) :
                              /\ nodes[k].Name = name
                              /\ \A j \in 1..Len(nodes) : nodes[j].Name = name => j <= k]
        hubNames == IF server.err = "ok" THEN {server.val.Name} ELSE {}
        allConfigs ==
            [name \in hubNames \cup names |->
                IF name \in names
                THEN generateNodeConfig(network.val, server.val, last(name), nodes)
                ELSE generateServerConfig(server.val, nodes)]
    IN  [err |-> "ok", configs |-> allConfigs, hash |-> calculateConfigHash(allConfigs)]

\* the last node in list order with that name (a later assignment to the
\* same map key replaces the earlier one)
GenerateConfigs(d, networkName) ==
    LET network == smGetNetworkByName(d, networkName) IN
    IF network.err # "ok" THEN [err |-> network.err, configs |-> EmptyFn, hash |-> <<>>]
    ELSE
    LET server == smGetServerByNetworkID(d, network.val.ID) IN
    IF server.err # "ok" THEN [err |-> "NoServer", configs |-> EmptyFn, hash |-> <<>>]
    ELSE
    LET nodes == smListNodesByNetworkID(d, network.val.ID).val
        names == {nodes[k].Name : k \in 1..Len(nodes)}
        last(name) == nodes[CHOOSE k \in 1..Len(nodes) :
                              /\ nodes[k].Name = name
                              /\ \A j \in 1..Len(nodes) : nodes[j].Name = name => j <= k]
        allConfigs ==
            [name \in {server.val.Name} \cup names |->
                IF name \in names
                THEN generateNodeConfig(network.val, server.val, last(name), nodes)
                ELSE generateServerConfig(server.val, nodes)]
    IN  [err |-> "ok", configs |-> allConfigs, hash |-> calculateConfigHash(allConfigs)]

wcgSaveConfigVersion(d, i, networkName) ==
    LET gen == GenerateConfigs(d, networkName) IN
    IF gen.err # "ok" THEN [db |-> d, ids |-> i, err |-> gen.err, val |-> NoConfig, created |-> FALSE]
    ELSE
    LET network == smGetNetworkByName(d, networkName)
        latest  == smGetLatestConfigVersion(d, network.val.ID)
    IN
    IF latest.err = "ok" /\ latest.val.ContentHash = gen.hash
    THEN [db |-> d, ids |-> i, err |-> "ok", val |-> latest.val, created |-> FALSE]
    ELSE
    LET id    == i.cfg + 1
        saved == smSaveConfigVersion(d, id, network.val.ID, gen.hash, gen.configs)
    IN  [db |-> saved.db, ids |-> [i EXCEPT !.cfg = id], err |-> "ok",
         val |-> saved.val, created |-> TRUE]

(***************************************************************************)
(* A caller that drives one IPPool directly, as the package's tests do:    *)
(* it allocates, releases any address it likes, and saves and restores     *)
(* the pool.                                                               *)
(***************************************************************************)
PoolCIDRs == {V4(10, 0, 0, 0, 24), V4(10, 0, 0, 9, 30), V4(192, 168, 1, 130, 29)}

UnallocatedIP == <<10, 99, 99, 99>>

\* the addresses the caller tries to release: the server address, the first
\* addresses of the block (held or not) and one outside every block
ReleaseCandidates(p) ==
    {incrementTimes(p.firstUsable, i) : i \in 0..Min(p.totalUsable, MaxHeld + 1)}
        \cup {UnallocatedIP}

RECURSIVE RemoveFirst(_, _)
RemoveFirst(s, x) ==
    IF s = <<>> THEN <<>>
    ELSE IF Head(s) = x THEN Tail(s)
    ELSE <<Head(s)>> \o RemoveFirst(Tail(s), x)

SeqToSet(s) == {s[i] : i \in 1..Len(s)}

PoolAllocate ==
    LET r == AllocateNodeIP(pool) IN
    /\ Len(held) < MaxHeld \/ r.err # "ok"
    /\ pool' = r.pool
    /\ held' = IF r.err = "ok" THEN Append(held, r.ip) ELSE held
    /\ ret' = Result("Allocate", "", "", r.err, r.ip)
    /\ UNCHANGED <<db, ipPools, ids>>

PoolRelease(ip) ==
    LET r == ReleaseNodeIP(pool, ip) IN
    /\ pool' = r.pool
    /\ held' = IF r.err = "ok" THEN RemoveFirst(held, ip) ELSE held
    /\ ret' = Result("Release", "", "", r.err, ip)
    /\ UNCHANGED <<db, ipPools, ids>>

PoolSaveRestore ==
    LET r == RestoreIPPool(GetState(pool)) IN
    /\ r.err = "ok"
    /\ pool' = r.pool
    /\ ret' = Result("Restore", "", "", r.err, EmptyIP)
    /\ UNCHANGED <<db, ipPools, ids, held>>

(***************************************************************************)
(* Initial states                                                          *)
(***************************************************************************)
EmptyDB ==
    [networks       |-> EmptyFn, networksByName |-> EmptyFn,
     servers        |-> EmptyFn, serversByName  |-> EmptyFn,
     nodes          |-> EmptyFn, nodesByName    |-> EmptyFn,
     configs        |-> EmptyFn, configsByVer   |-> EmptyFn,
     ipPools        |-> EmptyFn]

InitManager ==
    /\ db = EmptyDB
    /\ ipPools = EmptyFn
    /\ ids = [net |-> 0, srv |-> 0, node |-> 0, cfg |-> 0]
    /\ ret = NoResult

InitPool ==
    /\ InitManager
    /\ \E c \in PoolCIDRs : pool = NewIPPool(c).pool
    /\ held = <<>>

NextPool ==
    \/ PoolAllocate
    \/ \E ip \in ReleaseCandidates(pool) : PoolRelease(ip)
    \/ PoolSaveRestore

SpecPool == InitPool /\ [][NextPool]_vars

(***************************************************************************)
(* The manager's and the generator's operations as steps.  A step is one   *)
(* whole call.  What a call returns is a function of the state before it   *)
(* (vnm...(db, ipPools, ids, ...).ret) and is not kept in the state.       *)
(***************************************************************************)
Apply(r) ==
    /\ r.ids.net <= MaxNetworks
    /\ r.ids.srv <= MaxServers
    /\ r.ids.node <= MaxNodes
    /\ db' = r.db
    /\ ipPools' = r.ipPools
    /\ ids' = r.ids
    /\ UNCHANGED <<ret, pool, held>>

CreateVirtualNetwork(name, cidr) ==
    Apply(vnmCreateVirtualNetwork(db, ipPools, ids, name, cidr))

DeleteVirtualNetwork(name) ==
    Apply(vnmDeleteVirtualNetwork(db, ipPools, ids, name))

CreateServer(networkName, serverName, publicAddress, port) ==
    Apply(vnmCreateServer(db, ipPools, ids, networkName, serverName, publicAddress, port))

UpdateServer(networkName, publicAddress, port) ==
    Apply(vnmUpdateServer(db, ipPools, ids, networkName, publicAddress, port))

DeleteServer(networkName) ==
    Apply(vnmDeleteServer(db, ipPools, ids, networkName))

CreateNode(networkName, nodeName, publicAddress, port, nodeType, fault) ==
    Apply(vnmCreateNode(db, ipPools, ids, networkName, nodeName, publicAddress, port,
                        nodeType, fault))

UpdateNode(networkName, nodeName, publicAddress, port, nodeType) ==
    Apply(vnmUpdateNode(db, ipPools, ids, networkName, nodeName, publicAddress, port,
                        nodeType))

DeleteNode(networkName, nodeName, fault) ==
    Apply(vnmDeleteNode(db, ipPools, ids, networkName, nodeName, fault))

SaveConfigVersion(networkName) ==
    LET r == wcgSaveConfigVersion(db, ids, networkName) IN
    /\ r.ids.cfg <= MaxConfigs
    /\ db' = r.db
    /\ ids' = r.ids
    /\ UNCHANGED <<ipPools, ret, pool, held>>

\* the process ends and a later one calls NewVirtualNetworkManager on the
\* same database file: the pool cache starts empty
Restart ==
    /\ ipPools' = EmptyFn
    /\ UNCHANGED <<db, ids, ret, pool, held>>

CIDRs == {V4(10, 0, 0, 0, 24), V4(10, 0, 0, 9, 30), V6CIDR}
EntityNames == {"a", "b"}
Hosts == {"vpn.example.com", "bad host"}
Ports == {0}
NodeTypes == {NodeTypePeer}

Init ==
    /\ InitManager
    /\ pool = NoPool
    /\ held = <<>>

NetworkNames == {"x"}

\* one manager process after another on one database file
Next ==
    \/ \E name \in NetworkNames, cidr \in CIDRs : CreateVirtualNetwork(name, cidr)
    \/ \E name \in NetworkNames : DeleteVirtualNetwork(name)
    \/ \E net \in NetworkNames, name \in EntityNames, host \in Hosts, port \in Ports :
          CreateServer(net, name, host, port)
    \/ \E net \in NetworkNames, host \in Hosts, port \in Ports :
          UpdateServer(net, host, port)
    \/ \E net \in NetworkNames : DeleteServer(net)
    \/ \E net \in NetworkNames, name \in EntityNames, host \in Hosts, port \in Ports,
          type \in NodeTypes, fault \in {"none", "keygen"} :
              CreateNode(net, name, host, port, type, fault)
    \/ \E net \in NetworkNames, name \in EntityNames, host \in Hosts, port \in Ports,
          type \in NodeTypes : UpdateNode(net, name, host, port, type)
    \/ \E net \in NetworkNames, name \in EntityNames : DeleteNode(net, name, "none")
    \/ Restart

Spec == Init /\ [][Next]_vars

\* what can go wrong between the record write and the snapshot write
CreateNodeFaults == {"crashAfterRecord", "saveFails"}
DeleteNodeFaults == {"saveFails", "crashAfterSave", "deleteFails"}

CrashCIDRs == {V4(10, 0, 0, 0, 24)}
CrashHosts == {"vpn.example.com"}

\* the manager's operations on members, during which the process may stop
\* or a store write may fail
NextCrash ==
    \/ \E name \in NetworkNames, cidr \in CrashCIDRs : CreateVirtualNetwork(name, cidr)
    \/ \E net \in NetworkNames, name \in EntityNames, host \in CrashHosts,
          port \in Ports : CreateServer(net, name, host, port)
    \/ \E net \in NetworkNames, name \in EntityNames, host \in CrashHosts,
          port \in Ports, type \in NodeTypes :
              CreateNode(net, name, host, port, type, "none")
    \/ \E net \in NetworkNames, name \in EntityNames, host \in CrashHosts,
          port \in Ports, type \in NodeTypes, fault \in CreateNodeFaults :
              CreateNode(net, name, host, port, type, fault)
    \/ \E net \in NetworkNames, name \in EntityNames : DeleteNode(net, name, "none")
    \/ \E net \in NetworkNames, name \in EntityNames, fault \in DeleteNodeFaults :
          DeleteNode(net, name, fault)
    \/ Restart

SpecCrash == Init /\ [][NextCrash]_vars

\* either a caller drives one pool directly (pool is that pool), or the
\* manager runs (pool is NoPool)
NextHub ==
    \/ pool # NoPool /\ PoolAllocate
    \/ pool # NoPool /\ \E ip \in ReleaseCandidates(pool) : PoolRelease(ip)
    \/ pool # NoPool /\ PoolSaveRestore
    \/ pool = NoPool /\ \E name \in NetworkNames, cidr \in CIDRs :
          CreateVirtualNetwork(name, cidr)
    \/ pool = NoPool /\ \E name \in NetworkNames : DeleteVirtualNetwork(name)
    \/ pool = NoPool /\ \E net \in NetworkNames, name \in EntityNames, host \in Hosts,
          port \in Ports : CreateServer(net, name, host, port)
    \/ pool = NoPool /\ \E net \in NetworkNames, host \in Hosts, port \in Ports :
          UpdateServer(net, host, port)
    \/ pool = NoPool /\ \E net \in NetworkNames : DeleteServer(net)
    \/ pool = NoPool /\ \E net \in NetworkNames, name \in EntityNames, host \in Hosts,
          port \in Ports, type \in NodeTypes :
              CreateNode(net, name, host, port, type, "none")
    \/ pool = NoPool /\ \E net \in NetworkNames, name \in EntityNames :
          DeleteNode(net, name, "none")
    \/ pool = NoPool /\ Restart

SpecHub == (InitPool \/ Init) /\ [][NextHub]_vars

\* the manager's operations, create-member and delete-member only when they
\* succeed
NextSuccessful ==
    \/ \E name \in NetworkNames, cidr \in CIDRs : CreateVirtualNetwork(name, cidr)
    \/ \E name \in NetworkNames : DeleteVirtualNetwork(name)
    \/ \E net \in NetworkNames, name \in EntityNames, host \in Hosts, port \in Ports :
          CreateServer(net, name, host, port)
    \/ \E net \in NetworkNames : DeleteServer(net)
    \/ \E net \in NetworkNames, name \in EntityNames, host \in Hosts, port \in Ports,
          type \in NodeTypes :
              /\ vnmCreateNode(db, ipPools, ids, net, name, host, port, type,
                               "none").ret.err = "ok"
              /\ CreateNode(net, name, host, port, type, "none")
    \/ \E net \in NetworkNames, name \in EntityNames :
          /\ vnmDeleteNode(db, ipPools, ids, net, name, "none").ret.err = "ok"
          /\ DeleteNode(net, name, "none")
    \/ Restart

SpecSuccessful == Init /\ [][NextSuccessful]_vars

\* two networks side by side on one database, with configuration versions
TwoNetworkNames == {"x", "y"}
TwoCIDRs == {V4(10, 0, 0, 0, 24)}
TwoEntityNames == {"a"}
TwoMaxNodes == 2

NextTwo ==
    \/ \E name \in TwoNetworkNames, cidr \in TwoCIDRs : CreateVirtualNetwork(name, cidr)
    \/ \E name \in TwoNetworkNames : DeleteVirtualNetwork(name)
    \/ \E net \in TwoNetworkNames, name \in TwoEntityNames, host \in Hosts,
          port \in Ports : CreateServer(net, name, host, port)
    \/ \E net \in TwoNetworkNames : DeleteServer(net)
    \/ \E net \in TwoNetworkNames, name \in TwoEntityNames, host \in Hosts,
          port \in Ports, type \in NodeTypes :
              /\ ids.node < TwoMaxNodes
              /\ CreateNode(net, name, host, port, type, "none")
    \/ \E net \in TwoNetworkNames, name \in TwoEntityNames : DeleteNode(net, name, "none")
    \/ \E net \in TwoNetworkNames : SaveConfigVersion(net)

SpecTwo == Init /\ [][NextTwo]_vars

\* one network whose members are of every type, with and without a public
\* address
MemberCIDRs == {V4(10, 0, 0, 0, 24)}
HubNames == {"a"}
HubHosts == {"vpn.example.com", "203.0.113.7"}
MemberNames == {"a", "b", "c"}
MemberHosts == {"", "vpn.example.com"}
MemberTypes == {NodeTypePeer, NodeTypeRoute, ""}
UpdatePorts == {DefaultPort}

NextMembers ==
    \/ \E name \in NetworkNames, cidr \in MemberCIDRs : CreateVirtualNetwork(name, cidr)
    \/ \E net \in NetworkNames, name \in HubNames, host \in HubHosts, port \in Ports :
          CreateServer(net, name, host, port)
    \/ \E net \in NetworkNames, host \in HubHosts, port \in UpdatePorts :
          UpdateServer(net, host, port)
    \/ \E net \in NetworkNames, name \in MemberNames, host \in MemberHosts,
          port \in Ports, type \in MemberTypes :
              CreateNode(net, name, host, port, type, "none")
    \/ \E net \in NetworkNames, name \in MemberNames, host \in MemberHosts,
          port \in UpdatePorts, type \in MemberTypes :
              UpdateNode(net, name, host, port, type)
    \/ \E net \in NetworkNames, name \in MemberNames : DeleteNode(net, name, "none")

SpecMembers == Init /\ [][NextMembers]_vars

(***************************************************************************)
(* Properties of one pool (SpecPool).  held lists the addresses Allocate   *)
(* returned and Release has not taken back, oldest first.                  *)
(***************************************************************************)
\* the address k increments after the first usable one
AddressAt(p, k) == incrementTimes(p.firstUsable, k)

\* C3: no address is held by two unreleased allocations: the addresses
\* returned by Allocate and not released since are pairwise different.
C3_NoDoubleAllocation ==
    \A i, j \in 1..Len(held) : i # j => held[i] # held[j]

\* a reissued address is handed out while three others are held
C3_Witness ==
    /\ Len(held) >= 4
    /\ ret.op = "Allocate" /\ ret.err = "ok"
    /\ ret.ip # AddressAt(pool, pool.nextIndex - 1)

\* 10.0.0.0/24 with a hub: the first member gets .2, the second .3, and
\* after the first member is deleted the third member gets .2
C5_RecyclingExample ==
    LET host == "vpn.example.com"
        s0 == vnmCreateVirtualNetwork(EmptyDB, EmptyFn, [net |-> 0, srv |-> 0, node |-> 0,
                                                         cfg |-> 0],
                                      "x", V4(10, 0, 0, 0, 24))
        s1 == vnmCreateServer(s0.db, s0.ipPools, s0.ids, "x", "hub", host, 0)
        s2 == vnmCreateNode(s1.db, s1.ipPools, s1.ids, "x", "m1", host, 0, NodeTypePeer,
                            "none")
        s3 == vnmCreateNode(s2.db, s2.ipPools, s2.ids, "x", "m2", host, 0, NodeTypePeer,
                            "none")
        s4 == vnmDeleteNode(s3.db, s3.ipPools, s3.ids, "x", "m1", "none")
        s5 == vnmCreateNode(s4.db, s4.ipPools, s4.ids, "x", "m3", host, 0, NodeTypePeer,
                            "none")
    IN  /\ s1.ret.err = "ok" /\ s1.ret.ip = <<10, 0, 0, 1>>
        /\ s2.ret.err = "ok" /\ s2.ret.ip = <<10, 0, 0, 2>>
        /\ s3.ret.err = "ok" /\ s3.ret.ip = <<10, 0, 0, 3>>
        /\ s4.ret.err = "ok"
        /\ s5.ret.err = "ok" /\ s5.ret.ip = <<10, 0, 0, 2>>

\* C5: Allocate returns the head of the recycle FIFO when it is non-empty,
\* removing it and leaving the cursor; otherwise the address at the cursor,
\* advancing the cursor by one; Release appends to the FIFO, so addresses
\* come back in the order they were released and before any never-used
\* one; and the 10.0.0.0/24 example gives .2, .3 and .2 again.
C5_FifoThenCursor ==
    [][/\ (ret'.op = "Allocate" /\ Len(pool.recycled) > 0) =>
            /\ ret'.err = "ok"
            /\ ret'.ip = Head(pool.recycled)
            /\ pool'.recycled = Tail(pool.recycled)
            /\ pool'.nextIndex = pool.nextIndex
       /\ (ret'.op = "Allocate" /\ Len(pool.recycled) = 0 /\ ret'.err = "ok") =>
            /\ ret'.ip = AddressAt(pool, pool.nextIndex)
            /\ pool'.nextIndex = pool.nextIndex + 1
            /\ pool'.recycled = <<>>
       /\ (ret'.op = "Release" /\ ret'.err = "ok") =>
            /\ pool'.recycled = Append(pool.recycled, ret'.ip)
            /\ pool'.nextIndex = pool.nextIndex
       /\ C5_RecyclingExample
      ]_vars

\* an allocation served from the FIFO while a second released address waits
C5_Witness ==
    /\ ret.op = "Allocate" /\ ret.err = "ok"
    /\ ret.ip # AddressAt(pool, pool.nextIndex - 1)
    /\ Len(pool.recycled) >= 1

\* C6 as stated: in any reachable pool state, Release(a) followed at once
\* by Allocate returns a.
C6_ReleaseThenAllocate ==
    \A a \in ReleaseCandidates(pool) :
        LET r == ReleaseNodeIP(pool, a) IN
        r.err = "ok" => AllocateNodeIP(r.pool).ip = a

\* C6 amended: in any reachable pool state whose recycle FIFO is empty,
\* Release(a) followed at once by Allocate returns a.
C6_ReleaseThenAllocateEmptyFifo ==
    \A a \in ReleaseCandidates(pool) :
        LET r == ReleaseNodeIP(pool, a) IN
        (pool.recycled = <<>> /\ r.err = "ok") => AllocateNodeIP(r.pool).ip = a

\* the FIFO is empty, earlier releases have been reissued, and an address
\* below the cursor can be released
C6_Witness ==
    /\ pool.recycled = <<>>
    /\ Len(held) >= 2
    /\ ret.op = "Allocate" /\ ret.err = "ok"
    /\ ret.ip # AddressAt(pool, pool.nextIndex - 1)
    /\ ReleaseNodeIP(pool, held[1]).err = "ok"

(***************************************************************************)
(* Properties of the manager over one database (Spec).                     *)
(***************************************************************************)
\* the live entities of a network: its hub records and its member records
LiveEntities(d, networkID) ==
    {<<"hub", k>> : k \in {j \in DOMAIN d.servers : d.servers[j].NetworkID = networkID}}
        \cup
    {<<"member", k>> : k \in {j \in DOMAIN d.nodes : d.nodes[j].NetworkID = networkID}}

AddressOf(d, e) ==
    IF e[1] = "hub" THEN d.servers[e[2]].VirtualIP ELSE d.nodes[e[2]].VirtualIP

\* the network address of a block with its last byte raised by one
FirstUsableOf(cidr) == [ParseCIDR(cidr).IP EXCEPT ![4] = @ + 1]

\* C1: after any sequence of manager operations and restarts, no two live
\* entities (hub or members) of one network have the same assigned address.
C1_NoSharedAddress ==
    \A networkID \in DOMAIN db.networks :
        \A e1, e2 \in LiveEntities(db, networkID) :
            e1 # e2 => AddressOf(db, e1) # AddressOf(db, e2)

\* a hub and two members, the third member created holding the address the
\* first one gave back, seen by a manager that has just started
C1_Witness ==
    \E networkID \in DOMAIN db.networks :
        /\ Cardinality(LiveEntities(db, networkID)) = 3
        /\ \E k \in DOMAIN db.servers : db.servers[k].NetworkID = networkID
        /\ 3 \in DOMAIN db.nodes
        /\ db.nodes[3].NetworkID = networkID
        /\ db.nodes[3].VirtualIP = <<10, 0, 0, 2>>
        /\ ipPools = EmptyFn

\* C4: the hub address of every pool is the first usable address of its
\* block (10.0.0.0/24: 10.0.0.1); on every pool, driven directly or held by
\* the manager, Allocate does not return it (nor has returned it) and
\* Release of it fails with InvalidRelease and leaves the pool as it was;
\* every create-hub that succeeds assigns it and every hub record holds it.
C4_HubIsFirstUsable ==
    /\ \A c \in PoolCIDRs \cup CIDRs :
          LET new == NewIPPool(c) IN
          new.err = "ok" => GetServerIP(new.pool) = FirstUsableOf(c)
    /\ GetServerIP(NewIPPool(V4(10, 0, 0, 0, 24)).pool) = <<10, 0, 0, 1>>
    /\ \A p \in {ipPools[networkID] : networkID \in DOMAIN ipPools} \cup ({pool} \ {NoPool}) :
          LET a == AllocateNodeIP(p) IN
          /\ GetServerIP(p) = FirstUsableOf(p.networkCIDR)
          /\ a.err = "ok" => a.ip # GetServerIP(p)
          /\ ReleaseNodeIP(p, GetServerIP(p)) = [err |-> "InvalidRelease", pool |-> p]
    /\ GetServerIP(pool) \notin SeqToSet(held)
    /\ \A net \in NetworkNames, name \in EntityNames, host \in Hosts, port \in Ports :
          LET r == vnmCreateServer(db, ipPools, ids, net, name, host, port)
              hub == FirstUsableOf(smGetNetworkByName(db, net).val.CIDR)
          IN  r.ret.err = "ok" =>
                /\ r.ret.ip = hub
                /\ r.db.servers[r.ids.srv].VirtualIP = hub
    /\ \A k \in DOMAIN db.servers :
          db.servers[k].NetworkID \in DOMAIN db.networks =>
              db.servers[k].VirtualIP =
                  FirstUsableOf(db.networks[db.servers[k].NetworkID].CIDR)

\* a hub created after a delete-hub, in a network that has a member, seen
\* by a manager whose pool was restored from the snapshot
C4_Witness ==
    \E k \in DOMAIN db.servers :
        /\ k >= 2
        /\ db.servers[k].VirtualIP = <<10, 0, 0, 1>>
        /\ \E j \in DOMAIN db.nodes :
              /\ db.nodes[j].NetworkID = db.servers[k].NetworkID
              /\ j < MaxNodes
        /\ db.servers[k].NetworkID \in DOMAIN ipPools
        /\ GetServerIP(ipPools[db.servers[k].NetworkID])
               \in GetAllocatedIPs(ipPools[db.servers[k].NetworkID])

\* the entries of a name index that point to the record id
EntriesFor(index, id) == {key \in DOMAIN index : index[key] = id}

\* C8: the primary table and the name index of each entity kind agree:
\* every index entry points to an existing record with that network id
\* and name, and every record has exactly one index entry.
C8_IndexAgrees ==
    /\ \A name \in DOMAIN db.networksByName :
          /\ db.networksByName[name] \in DOMAIN db.networks
          /\ db.networks[db.networksByName[name]].Name = name
    /\ \A id \in DOMAIN db.networks :
          Cardinality(EntriesFor(db.networksByName, id)) = 1
    /\ \A key \in DOMAIN db.serversByName :
          /\ db.serversByName[key] \in DOMAIN db.servers
          /\ NameKey(db.servers[db.serversByName[key]].NetworkID,
                     db.servers[db.serversByName[key]].Name) = key
    /\ \A id \in DOMAIN db.servers :
          Cardinality(EntriesFor(db.serversByName, id)) = 1
    /\ \A key \in DOMAIN db.nodesByName :
          /\ db.nodesByName[key] \in DOMAIN db.nodes
          /\ NameKey(db.nodes[db.nodesByName[key]].NetworkID,
                     db.nodes[db.nodesByName[key]].Name) = key
    /\ \A id \in DOMAIN db.nodes :
          Cardinality(EntriesFor(db.nodesByName, id)) = 1

\* delete-hub followed by create-hub with the deleted hub's name succeeds
C9_HubNameReusable ==
    \A net \in NetworkNames, host \in Hosts \ SpaceSamples, port \in Ports :
        LET n   == smGetServerByNetworkID(db, smGetNetworkByName(db, net).val.ID).val.Name
            del == vnmDeleteServer(db, ipPools, ids, net)
            cr  == vnmCreateServer(del.db, del.ipPools, del.ids, net, n, host, port)
        IN  del.ret.err = "ok" => cr.ret.err = "ok"

\* delete-member followed by create-member with the same name succeeds
C9_MemberNameReusable ==
    \A net \in NetworkNames, n \in EntityNames, host \in Hosts \ SpaceSamples,
       port \in Ports, type \in NodeTypes :
        LET del == vnmDeleteNode(db, ipPools, ids, net, n, "none")
            cr  == vnmCreateNode(del.db, del.ipPools, del.ids, net, n, host, port, type,
                                 "none")
        IN  del.ret.err = "ok" => cr.ret.err = "ok"

\* C9: a hub or member name is reusable after deletion within the same
\* network: after delete-hub (delete-member) of the entity named n,
\* create-hub (create-member) with the name n succeeds.
C9_NameReusable == C9_HubNameReusable /\ C9_MemberNameReusable

\* C2: create-member and delete-member are atomic across the member record
\* and the stored pool snapshot: in no state does a live member record hold
\* an address the snapshot reports free (not allocated, or in the recycle
\* FIFO), and in no state does the snapshot hold an address allocated that
\* no live member record owns.
C2_RecordAndSnapshotAgree ==
    \A networkID \in DOMAIN db.ipPools :
        LET state == db.ipPools[networkID]
            owned == {db.nodes[k].VirtualIP :
                         k \in {j \in DOMAIN db.nodes : db.nodes[j].NetworkID = networkID}}
        IN  /\ \A ip \in owned :
                  ip \in state.Allocated /\ ip \notin SeqToSet(state.Recycled)
            /\ \A ip \in state.Allocated : ip \in owned

\* C7: a fresh manager over the same store (empty pool cache) returns from
\* create-member and delete-member what the running manager returns and
\* leaves the same store behind; the address it issues is the head of the
\* recycle FIFO the running manager holds, and no live entity holds it.
C7_RestartInvisible ==
    \A net \in NetworkNames, name \in EntityNames :
        /\ \A host \in Hosts, port \in Ports, type \in NodeTypes :
              LET warm == vnmCreateNode(db, ipPools, ids, net, name, host, port, type,
                                        "none")
                  cold == vnmCreateNode(db, EmptyFn, ids, net, name, host, port, type,
                                        "none")
                  networkID == smGetNetworkByName(db, net).val.ID
              IN  /\ cold.ret = warm.ret
                  /\ warm.ret.err = "ok" => cold.db = warm.db
                  /\ cold.ret.err = "ok" =>
                        /\ \A e \in LiveEntities(db, networkID) :
                              AddressOf(db, e) # cold.ret.ip
                        /\ (/\ networkID \in DOMAIN ipPools
                            /\ ipPools[networkID].recycled # <<>>) =>
                               cold.ret.ip = Head(ipPools[networkID].recycled)
        /\ LET warm == vnmDeleteNode(db, ipPools, ids, net, name, "none")
               cold == vnmDeleteNode(db, EmptyFn, ids, net, name, "none")
           IN  /\ cold.ret = warm.ret
               /\ warm.ret.err = "ok" => cold.db = warm.db

\* the running manager holds a pool with a freed address and a live
\* member, and a create-member would succeed
C7_Witness ==
    \E networkID \in DOMAIN ipPools :
        /\ Len(ipPools[networkID].recycled) = 1
        /\ ipPools[networkID].nextIndex = 3
        /\ \E k \in DOMAIN db.nodes : db.nodes[k].NetworkID = networkID
        /\ \E net \in NetworkNames, name \in EntityNames :
              vnmCreateNode(db, ipPools, ids, net, name, "vpn.example.com", 0,
                            NodeTypePeer, "none").ret.err = "ok"

(***************************************************************************)
(* Properties of two networks on one database (SpecTwo).                   *)
(***************************************************************************)
Only(f, keys) == [k \in keys |-> f[k]]

\* what the database holds of one network: its record, its name, its hub
\* and member records, their index entries, its config versions and its
\* pool snapshot
OfNetwork(d, networkID) ==
    [networks       |-> Only(d.networks, {k \in DOMAIN d.networks : k = networkID}),
     networksByName |-> Only(d.networksByName,
                             {k \in DOMAIN d.networksByName :
                                 d.networksByName[k] = networkID}),
     servers        |-> Only(d.servers,
                             {k \in DOMAIN d.servers : d.servers[k].NetworkID = networkID}),
     serversByName  |-> Only(d.serversByName,
                             {k \in DOMAIN d.serversByName : k[1] = networkID}),
     nodes          |-> Only(d.nodes,
                             {k \in DOMAIN d.nodes : d.nodes[k].NetworkID = networkID}),
     nodesByName    |-> Only(d.nodesByName,
                             {k \in DOMAIN d.nodesByName : k[1] = networkID}),
     configs        |-> Only(d.configs,
                             {k \in DOMAIN d.configs : d.configs[k].NetworkID = networkID}),
     configsByVer   |-> Only(d.configsByVer,
                             {k \in DOMAIN d.configsByVer : d.configsByVer[k] = networkID}),
     ipPools        |-> Only(d.ipPools, {k \in DOMAIN d.ipPools : k = networkID})]

\* C10: networks are isolated namespaces.  A create-hub or create-member in
\* network B returns what it returns on a database holding network B
\* alone, so no name used in another network makes it fail; and deleting
\* network A leaves the records, index entries, pool snapshot and config
\* versions of every other network as they were.
C10_NetworksIsolated ==
    \A B \in TwoNetworkNames :
        LET found == smGetNetworkByName(db, B)
            alone == OfNetwork(db, found.val.ID)
        IN  found.err = "ok" =>
            /\ \A name \in TwoEntityNames, host \in Hosts, port \in Ports :
                  /\ vnmCreateServer(db, ipPools, ids, B, name, host, port).ret
                        = vnmCreateServer(alone, ipPools, ids, B, name, host, port).ret
                  /\ \A type \in NodeTypes :
                        vnmCreateNode(db, ipPools, ids, B, name, host, port, type,
                                      "none").ret
                          = vnmCreateNode(alone, ipPools, ids, B, name, host, port, type,
                                          "none").ret
            /\ \A A \in TwoNetworkNames \ {B} :
                  LET deleted == vnmDeleteVirtualNetwork(db, ipPools, ids, A) IN
                  deleted.ret.err = "ok" =>
                      /\ OfNetwork(deleted.db, found.val.ID) = alone
                      /\ found.val.ID \in DOMAIN ipPools =>
                            /\ found.val.ID \in DOMAIN deleted.ipPools
                            /\ deleted.ipPools[found.val.ID] = ipPools[found.val.ID]

\* both networks hold a hub named a and a member named a, and each has a
\* pool snapshot and a config version
C10_Witness ==
    /\ Cardinality(DOMAIN db.networks) = 2
    /\ \A networkID \in DOMAIN db.networks :
          /\ NameKey(networkID, "a") \in DOMAIN db.serversByName
          /\ db.serversByName[NameKey(networkID, "a")] \in DOMAIN db.servers
          /\ NameKey(networkID, "a") \in DOMAIN db.nodesByName
          /\ networkID \in DOMAIN db.ipPools
          /\ \E k \in DOMAIN db.configs : db.configs[k].NetworkID = networkID

(***************************************************************************)
(* Properties of delete-network.                                           *)
(***************************************************************************)
\* C11: delete-network on an existing network succeeds and leaves no table
\* and no index holding anything of the deleted network id: no hub, member
\* or config record, no name-index entry keyed by the id, no pool snapshot,
\* no network record and no cached pool, whatever preceded the delete.
C11_DeleteNetworkRemovesAll ==
    \A name \in TwoNetworkNames :
        LET found   == smGetNetworkByName(db, name)
            deleted == vnmDeleteVirtualNetwork(db, ipPools, ids, name)
        IN  found.err = "ok" =>
               /\ deleted.ret.err = "ok"
               /\ OfNetwork(deleted.db, found.val.ID) = OfNetwork(EmptyDB, found.val.ID)
               /\ found.val.ID \notin DOMAIN deleted.ipPools

\* what a network created by the call cr gives to its first hub, its first
\* member and its first config version
FirstOfNetwork(cr, name, cidr) ==
    LET hub    == vnmCreateServer(cr.db, cr.ipPools, cr.ids, name, "a",
                                  "vpn.example.com", 0)
        member == vnmCreateNode(hub.db, hub.ipPools, hub.ids, name, "a",
                                "vpn.example.com", 0, NodeTypePeer, "none")
        alone  == vnmCreateNode(cr.db, cr.ipPools, cr.ids, name, "a",
                                "vpn.example.com", 0, NodeTypePeer, "none")
        saved  == wcgSaveConfigVersion(member.db, member.ids, name)
    IN  [hubErr |-> hub.ret.err, hubIP |-> hub.ret.ip,
         memberErr |-> member.ret.err, memberIP |-> member.ret.ip,
         aloneErr |-> alone.ret.err, aloneIP |-> alone.ret.ip,
         savedErr |-> saved.err, created |-> saved.created,
         version |-> saved.val.Version]

FromScratch(cidr) ==
    [hubErr |-> "ok", hubIP |-> FirstUsableOf(cidr),
     memberErr |-> "ok", memberIP |-> increment(FirstUsableOf(cidr)),
     aloneErr |-> "ok", aloneIP |-> increment(FirstUsableOf(cidr)),
     savedErr |-> "ok", created |-> TRUE, version |-> 1]

\* C12: a network created with the name and CIDR of a deleted network starts
\* from scratch, in the running manager and in a fresh one alike: its hub
\* gets the first usable address, its first member the address right after
\* it, and its first saved config snapshot has version 1.
C12_RecreatedStartsFromScratch ==
    \A name \in TwoNetworkNames :
        LET found   == smGetNetworkByName(db, name)
            deleted == vnmDeleteVirtualNetwork(db, ipPools, ids, name)
            cr      == vnmCreateVirtualNetwork(deleted.db, deleted.ipPools, deleted.ids,
                                               name, found.val.CIDR)
            cold    == [cr EXCEPT !.ipPools = EmptyFn]
        IN  (found.err = "ok" /\ deleted.ret.err = "ok") =>
               /\ cr.ret.err = "ok"
               /\ FirstOfNetwork(cr, name, found.val.CIDR) = FromScratch(found.val.CIDR)
               /\ FirstOfNetwork(cold, name, found.val.CIDR) = FromScratch(found.val.CIDR)

\* a network whose hub was deleted and created again, with a live member
\* (the cursor is past the first member address) and two config versions,
\* is deleted and created again
C12_Witness ==
    \E name \in TwoNetworkNames :
        LET found   == smGetNetworkByName(db, name)
            deleted == vnmDeleteVirtualNetwork(db, ipPools, ids, name)
            cr      == vnmCreateVirtualNetwork(deleted.db, deleted.ipPools, deleted.ids,
                                               name, found.val.CIDR)
        IN  /\ found.err = "ok"
            /\ smGetServerByNetworkID(db, found.val.ID).err = "ok"
            /\ smGetServerByNetworkID(db, found.val.ID).val.ID = 2
            /\ Len(smListNodesByNetworkID(db, found.val.ID).val) = 1
            /\ found.val.ID \in DOMAIN ipPools
            /\ ipPools[found.val.ID].nextIndex = 2
            /\ smGetLatestConfigVersion(db, found.val.ID).val.Version = 2
            /\ deleted.ret.err = "ok"
            /\ cr.ret.err = "ok"
            /\ FirstOfNetwork(cr, name, found.val.CIDR).memberIP
                  = increment(FirstUsableOf(found.val.CIDR))

(***************************************************************************)
(* Properties of hubs and members (Spec).                                  *)
(***************************************************************************)
HubsOf(d, networkID) == {k \in DOMAIN d.servers : d.servers[k].NetworkID = networkID}

\* C13: each network has at most one hub.  Create-hub on a network that has
\* a hub fails whatever name is given, with AlreadyExists when the address
\* is a valid one; the database (hub record, index entries, pool snapshot)
\* is as before, and so is the manager's pool of the network: a cached pool
\* is untouched, and a manager without one loads the stored snapshot.
C13_OneHub ==
    /\ \A networkID \in DOMAIN db.networks : Cardinality(HubsOf(db, networkID)) <= 1
    /\ \A net \in NetworkNames, name \in EntityNames, host \in Hosts, port \in Ports :
          LET found == smGetNetworkByName(db, net)
              id    == found.val.ID
              r     == vnmCreateServer(db, ipPools, ids, net, name, host, port)
          IN  (found.err = "ok" /\ HubsOf(db, id) # {}) =>
                 /\ r.ret.err # "ok"
                 /\ IsValidPublicAddress(host) => r.ret.err = "AlreadyExists"
                 /\ r.db = db
                 /\ r.ids = ids
                 /\ id \in DOMAIN ipPools => r.ipPools = ipPools
                 /\ (id \notin DOMAIN ipPools /\ IsValidPublicAddress(host)) =>
                        r.ipPools = Put(ipPools, id, RestoreIPPool(db.ipPools[id]).pool)

\* a fresh manager (empty pool cache) on a network that has the hub a and a
\* member is asked to create a hub named b
C13_Witness ==
    \E networkID \in DOMAIN db.networks :
        /\ \E k \in HubsOf(db, networkID) : db.servers[k].Name = "a"
        /\ \E k \in DOMAIN db.nodes : db.nodes[k].NetworkID = networkID
        /\ networkID \notin DOMAIN ipPools
        /\ vnmCreateServer(db, ipPools, ids, db.networks[networkID].Name, "b",
                           "vpn.example.com", 0).ret.err = "AlreadyExists"

(***************************************************************************)
(* Properties of members of every type (SpecMembers).                      *)
(***************************************************************************)
\* C14: every stored member whose type is peer has a non-empty public
\* address, whatever create-member and update-member calls were made
\* (an unspecified type included).
C14_PeerHasPublicAddress ==
    \A k \in DOMAIN db.nodes :
        db.nodes[k].Type = NodeTypePeer => db.nodes[k].PublicAddress # ""

\* C15: create-member and update-member with type peer and an empty public
\* address fail with a validation error and change nothing; with type route
\* and an empty address create-member succeeds when the name is free, and
\* update-member succeeds on every member, whatever its type was before:
\* the rule looks at the requested type only.
C15_PeerNeedsAddress ==
    \A net \in NetworkNames, name \in MemberNames, port \in Ports \cup UpdatePorts :
        LET found   == smGetNetworkByName(db, net)
            id      == found.val.ID
            exists  == NameKey(id, name) \in DOMAIN db.nodesByName
            crPeer  == vnmCreateNode(db, ipPools, ids, net, name, "", port, NodeTypePeer,
                                     "none")
            crRoute == vnmCreateNode(db, ipPools, ids, net, name, "", port, NodeTypeRoute,
                                     "none")
            upPeer  == vnmUpdateNode(db, ipPools, ids, net, name, "", port, NodeTypePeer)
            upRoute == vnmUpdateNode(db, ipPools, ids, net, name, "", port, NodeTypeRoute)
            made    == smGetNodeByName(crRoute.db, id, name).val
            changed == smGetNodeByName(upRoute.db, id, name).val
        IN  found.err = "ok" =>
               /\ crPeer.ret.err = "ValidationError"
               /\ crPeer.db = db /\ crPeer.ipPools = ipPools /\ crPeer.ids = ids
               /\ ~exists =>
                     /\ crRoute.ret.err = "ok"
                     /\ made.Type = NodeTypeRoute /\ made.PublicAddress = ""
                     /\ made.VirtualIP = crRoute.ret.ip
               /\ exists =>
                     /\ upPeer.ret.err = "ValidationError"
                     /\ upPeer.db = db /\ upPeer.ipPools = ipPools /\ upPeer.ids = ids
                     /\ upRoute.ret.err = "ok"
                     /\ changed = [smGetNodeByName(db, id, name).val EXCEPT
                                      !.Type = NodeTypeRoute, !.PublicAddress = "",
                                      !.Port = port]

\* the network holds a peer-type member with an address and a route-type
\* member without one, and a third name is free
C15_Witness ==
    \E networkID \in DOMAIN db.networks :
        /\ \E k \in DOMAIN db.nodes :
              /\ db.nodes[k].NetworkID = networkID
              /\ db.nodes[k].Type = NodeTypePeer
              /\ db.nodes[k].PublicAddress # ""
        /\ \E k \in DOMAIN db.nodes :
              /\ db.nodes[k].NetworkID = networkID
              /\ db.nodes[k].Type = NodeTypeRoute
              /\ db.nodes[k].PublicAddress = ""
        /\ \E name \in MemberNames : NameKey(networkID, name) \notin DOMAIN db.nodesByName

(***************************************************************************)
(* Properties of the generated documents (SpecMembers).  A [Peer] section  *)
(* is told from the others by its public key: no two entities have the     *)
(* same key pair.                                                          *)
(***************************************************************************)
PeerKeys(doc) == {doc.Peers[k].PublicKey : k \in 1..Len(doc.Peers)}

EntryOf(doc, key) ==
    doc.Peers[CHOOSE k \in 1..Len(doc.Peers) : doc.Peers[k].PublicKey = key]

MembersOf(d, networkID) ==
    {d.nodes[k] : k \in {j \in DOMAIN d.nodes : d.nodes[j].NetworkID = networkID}}

PeersOf(d, networkID) == {q \in MembersOf(d, networkID) : q.Type = NodeTypePeer}

\* the peer sections of doc are one for the hub and one for each member of
\* expected, every one with its endpoint
HubAndPeers(doc, hub, expected) ==
    /\ Len(doc.Peers) = 1 + Cardinality(expected)
    /\ PeerKeys(doc) = {hub.PublicKey} \cup {q.PublicKey : q \in expected}
    /\ EntryOf(doc, hub.PublicKey).Endpoint = FormatEndpoint(hub.PublicAddress, hub.Port)
    /\ \A q \in expected :
          EntryOf(doc, q.PublicKey).Endpoint = FormatEndpoint(q.PublicAddress, q.Port)
    /\ \A k \in 1..Len(doc.Peers) :
          /\ doc.Peers[k].Endpoint # NoEndpoint
          /\ doc.Peers[k].Endpoint[1] # ""

\* C16: the document of a peer-type member p has exactly these peer
\* entries: one for the hub and one for each other peer-type member, each
\* with an endpoint; none for p itself and none for a route-type member.
C16_PeerDocument ==
    \A net \in NetworkNames :
        LET found == smGetNetworkByName(db, net)
            hub   == smGetServerByNetworkID(db, found.val.ID)
            nodes == smListNodesByNetworkID(db, found.val.ID).val
        IN  (found.err = "ok" /\ hub.err = "ok") =>
               \A p \in PeersOf(db, found.val.ID) :
                   HubAndPeers(generateNodeConfig(found.val, hub.val, p, nodes), hub.val,
                               {q \in PeersOf(db, found.val.ID) : q.ID # p.ID})

\* the same, in the states where every peer-type member has an address
C16_PeerDocumentAddressed == C14_PeerHasPublicAddress => C16_PeerDocument

\* C17: the document of a route-type member r has exactly these peer
\* entries: one for the hub and one for every peer-type member, each with
\* an endpoint; none for another route-type member.
C17_RouteDocument ==
    \A net \in NetworkNames :
        LET found == smGetNetworkByName(db, net)
            hub   == smGetServerByNetworkID(db, found.val.ID)
            nodes == smListNodesByNetworkID(db, found.val.ID).val
        IN  (found.err = "ok" /\ hub.err = "ok") =>
               \A r \in MembersOf(db, found.val.ID) :
                   r.Type = NodeTypeRoute =>
                       HubAndPeers(generateNodeConfig(found.val, hub.val, r, nodes),
                                   hub.val, PeersOf(db, found.val.ID))

\* the same, in the states where every peer-type member has an address
C17_RouteDocumentAddressed == C14_PeerHasPublicAddress => C17_RouteDocument

\* C18: the hub's document has exactly one peer entry per member, of
\* whatever type, and an entry has an endpoint if and only if its member is
\* peer-type.
C18_HubDocument ==
    \A net \in NetworkNames :
        LET found == smGetNetworkByName(db, net)
            hub   == smGetServerByNetworkID(db, found.val.ID)
            nodes == smListNodesByNetworkID(db, found.val.ID).val
            M     == MembersOf(db, found.val.ID)
            doc   == generateServerConfig(hub.val, nodes)
        IN  (found.err = "ok" /\ hub.err = "ok") =>
               /\ Len(doc.Peers) = Cardinality(M)
               /\ PeerKeys(doc) = {q.PublicKey : q \in M}
               /\ \A q \in M :
                     (EntryOf(doc, q.PublicKey).Endpoint # NoEndpoint)
                         <=> (q.Type = NodeTypePeer)

\* the same, in the states where every peer-type member has an address
C18_HubDocumentAddressed == C14_PeerHasPublicAddress => C18_HubDocument

(***************************************************************************)
(* Properties of the aggregate hash (SpecMembers).                         *)
(***************************************************************************)
\* C19: generation is deterministic.  With no state change in between, two
\* generations return the same documents and the same aggregate hash, in
\* whatever order the documents are enumerated; a second save right after a
\* save finds the hash unchanged and creates no version.
C19_Deterministic ==
    \A net \in NetworkNames :
        LET gen    == GenerateConfigs(db, net)
            first  == wcgSaveConfigVersion(db, ids, net)
            second == wcgSaveConfigVersion(first.db, first.ids, net)
        IN  gen.err = "ok" =>
               /\ \A o \in RangeOrders(DOMAIN gen.configs) :
                     calculateConfigHashIn(gen.configs, o) = gen.hash
               /\ GenerateConfigs(first.db, net) = gen
               /\ first.err = "ok" /\ second.err = "ok"
               /\ ~second.created
               /\ second.val = first.val
               /\ second.db = first.db

\* a hub and two members under three names: three documents, six orders
C19_Witness ==
    \E net \in NetworkNames :
        /\ GenerateConfigs(db, net).err = "ok"
        /\ Cardinality(DOMAIN GenerateConfigs(db, net).configs) = 3
        /\ Len(smListNodesByNetworkID(db, smGetNetworkByName(db, net).val.ID).val) = 2

\* the aggregate hash of the network after a call that returned r, and
\* whether it differs from the hash before; a call that failed, or after
\* which no documents can be generated, changed nothing to compare
HashMoved(r, net) ==
    (r.ret.err = "ok" /\ GenerateConfigs(r.db, net).err = "ok") =>
        GenerateConfigs(r.db, net).hash # GenerateConfigs(db, net).hash

\* the same for the database d, a copy of db with one field of one record
\* replaced
HashMovedIn(d, net) == GenerateConfigs(d, net).hash # GenerateConfigs(db, net).hash

AnyHosts == HubHosts \cup MemberHosts
OtherIP == <<10, 0, 0, 77>>
OtherKey == <<"other">>

\* C20: the aggregate hash changes with every change of membership (a
\* member added or removed), of a public or assigned address of the hub or
\* of a member, of a key, or of a member's type.
C20_HashSensitive ==
    \A net \in NetworkNames :
        LET found == smGetNetworkByName(db, net)
            hub   == smGetServerByNetworkID(db, found.val.ID).val
        IN  GenerateConfigs(db, net).err = "ok" =>
            /\ \A name \in MemberNames, host \in MemberHosts, type \in MemberTypes :
                  HashMoved(vnmCreateNode(db, ipPools, ids, net, name, host, 0, type,
                                          "none"), net)
            /\ \A name \in MemberNames :
                  HashMoved(vnmDeleteNode(db, ipPools, ids, net, name, "none"), net)
            /\ \A host \in HubHosts \ {hub.PublicAddress} :
                  HashMoved(vnmUpdateServer(db, ipPools, ids, net, host, hub.Port), net)
            /\ HashMovedIn([db EXCEPT !.servers[hub.ID].VirtualIP = OtherIP], net)
            /\ HashMovedIn([db EXCEPT !.servers[hub.ID].PrivateKey = OtherKey], net)
            /\ HashMovedIn([db EXCEPT !.servers[hub.ID].PublicKey = OtherKey], net)
            /\ \A q \in MembersOf(db, found.val.ID) :
                  /\ \A host \in AnyHosts \ {q.PublicAddress} :
                        HashMoved(vnmUpdateNode(db, ipPools, ids, net, q.Name, host,
                                                q.Port, q.Type), net)
                  /\ \A type \in {NodeTypePeer, NodeTypeRoute} \ {q.Type} :
                        HashMoved(vnmUpdateNode(db, ipPools, ids, net, q.Name,
                                                q.PublicAddress, q.Port, type), net)
                  /\ HashMovedIn([db EXCEPT !.nodes[q.ID].VirtualIP = OtherIP], net)
                  /\ HashMovedIn([db EXCEPT !.nodes[q.ID].PrivateKey = OtherKey], net)
                  /\ HashMovedIn([db EXCEPT !.nodes[q.ID].PublicKey = OtherKey], net)

\* the part of C20 about membership, assigned addresses and private keys
\* of members: these are in the member's own document
C20_MembershipMovesHash ==
    \A net \in NetworkNames :
        LET found == smGetNetworkByName(db, net) IN
        GenerateConfigs(db, net).err = "ok" =>
            /\ \A name \in MemberNames, host \in MemberHosts, type \in MemberTypes :
                  HashMoved(vnmCreateNode(db, ipPools, ids, net, name, host, 0, type,
                                          "none"), net)
            /\ \A name \in MemberNames :
                  HashMoved(vnmDeleteNode(db, ipPools, ids, net, name, "none"), net)
            /\ \A q \in MembersOf(db, found.val.ID) :
                  /\ HashMovedIn([db EXCEPT !.nodes[q.ID].VirtualIP = OtherIP], net)
                  /\ HashMovedIn([db EXCEPT !.nodes[q.ID].PrivateKey = OtherKey], net)

\* the part of C20 about the public address of a member that is not
\* peer-type: no document holds it
C20_RouteAddressMovesHash ==
    \A net \in NetworkNames :
        GenerateConfigs(db, net).err = "ok" =>
            \A q \in MembersOf(db, smGetNetworkByName(db, net).val.ID) :
                q.Type = NodeTypeRoute =>
                    \A host \in AnyHosts \ {q.PublicAddress} :
                        HashMoved(vnmUpdateNode(db, ipPools, ids, net, q.Name, host,
                                                q.Port, q.Type), net)

(***************************************************************************)
(* Properties of config versions (SpecTwo).                                *)
(***************************************************************************)
VersionsOf(d, networkID) ==
    {k \in DOMAIN d.configs : d.configs[k].NetworkID = networkID}

\* C21: save-version is idempotent without change.  A second save right
\* after a save, with no state change in between, writes nothing and
\* returns the latest stored version flagged unchanged; the network has as
\* many versions after it as before.
C21_SaveIdempotent ==
    \A net \in TwoNetworkNames :
        LET id     == smGetNetworkByName(db, net).val.ID
            first  == wcgSaveConfigVersion(db, ids, net)
            second == wcgSaveConfigVersion(first.db, first.ids, net)
        IN  first.err = "ok" =>
               /\ second.err = "ok"
               /\ ~second.created
               /\ second.val = first.val
               /\ second.val = smGetLatestConfigVersion(first.db, id).val
               /\ \A j \in VersionsOf(first.db, id) :
                     first.db.configs[j].Version <= second.val.Version
               /\ Cardinality(VersionsOf(second.db, id))
                     = Cardinality(VersionsOf(first.db, id))
               /\ second.db = first.db
               /\ second.ids = first.ids

\* a network with a stored version that is not of its present state: the
\* first save appends version 2, the second finds it
C21_Witness ==
    \E net \in TwoNetworkNames :
        LET id    == smGetNetworkByName(db, net).val.ID
            first == wcgSaveConfigVersion(db, ids, net)
        IN  /\ Cardinality(VersionsOf(db, id)) = 1
            /\ first.err = "ok"
            /\ first.created
            /\ first.val.Version = 2

\* a save, then the call that returned r on the database the save left,
\* then a second save: when the call changed the hub or the members (r.db
\* is not that database) and the second save succeeds, it appends one
\* version, one greater than the first save's, and returns it as created
AppendsOne(first, r, net) ==
    LET id     == smGetNetworkByName(first.db, net).val.ID
        second == wcgSaveConfigVersion(r.db, first.ids, net)
    IN  (r.ret.err = "ok" /\ r.db # first.db /\ second.err = "ok") =>
           /\ second.created
           /\ second.val.Version = first.val.Version + 1
           /\ Cardinality(VersionsOf(second.db, id))
                 = Cardinality(VersionsOf(first.db, id)) + 1

\* C22: any state change of the network's hub or members between two
\* save-version calls makes the second call append exactly one version,
\* numbered one greater than the latest before it, returned as created.
C22_ChangeAppendsVersion ==
    \A net \in NetworkNames :
        LET first == wcgSaveConfigVersion(db, ids, net) IN
        first.err = "ok" =>
            /\ \A name \in MemberNames, host \in MemberHosts, type \in MemberTypes :
                  AppendsOne(first, vnmCreateNode(first.db, ipPools, first.ids, net, name,
                                                  host, 0, type, "none"), net)
            /\ \A name \in MemberNames :
                  AppendsOne(first, vnmDeleteNode(first.db, ipPools, first.ids, net, name,
                                                  "none"), net)
            /\ \A host \in HubHosts, port \in UpdatePorts :
                  AppendsOne(first, vnmUpdateServer(first.db, ipPools, first.ids, net, host,
                                                    port), net)
            /\ \A name \in MemberNames, host \in AnyHosts, port \in UpdatePorts,
                  type \in MemberTypes :
                  AppendsOne(first, vnmUpdateNode(first.db, ipPools, first.ids, net, name,
                                                  host, port, type), net)

\* the part of C22 about membership: a member created or deleted between
\* two saves
C22_MembershipAppendsVersion ==
    \A net \in NetworkNames :
        LET first == wcgSaveConfigVersion(db, ids, net) IN
        first.err = "ok" =>
            /\ \A name \in MemberNames, host \in MemberHosts, type \in MemberTypes :
                  AppendsOne(first, vnmCreateNode(first.db, ipPools, first.ids, net, name,
                                                  host, 0, type, "none"), net)
            /\ \A name \in MemberNames :
                  AppendsOne(first, vnmDeleteNode(first.db, ipPools, first.ids, net, name,
                                                  "none"), net)

\* the versions the stored snapshots of a network carry
VersionNumbers(d, networkID) ==
    {d.configs[k].Version : k \in VersionsOf(d, networkID)}

\* C23: the config snapshots of a network carry exactly the versions 1..n,
\* no gap and no duplicate; get-latest returns version n, list-versions
\* returns them in ascending order, and one more save leaves every stored
\* snapshot as it was and, when it stores one, numbers it n + 1.
C23_VersionsGapFree ==
    \A net \in TwoNetworkNames :
        LET found == smGetNetworkByName(db, net)
            id    == found.val.ID
            n     == Cardinality(VersionsOf(db, id))
            list  == smListConfigVersions(db, id).val
            saved == wcgSaveConfigVersion(db, ids, net)
        IN  found.err = "ok" =>
               /\ VersionNumbers(db, id) = 1..n
               /\ (n = 0) = (smGetLatestConfigVersion(db, id).err = "NotFound")
               /\ n > 0 => smGetLatestConfigVersion(db, id).val.Version = n
               /\ Len(list) = n
               /\ \A k \in 1..n : list[k].Version = k
               /\ \A k \in 1..n : smGetConfigVersion(db, id, k).val = list[k]
               /\ \A k \in DOMAIN db.configs :
                     k \in DOMAIN saved.db.configs /\ saved.db.configs[k] = db.configs[k]
               /\ (saved.err = "ok" /\ saved.created) =>
                     /\ saved.val.Version = n + 1
                     /\ VersionNumbers(saved.db, id) = 1..(n + 1)
                     /\ Cardinality(VersionsOf(saved.db, id)) = n + 1

\* a network with two stored versions
C23_Witness ==
    \E net \in TwoNetworkNames :
        /\ smGetNetworkByName(db, net).err = "ok"
        /\ Cardinality(VersionsOf(db, smGetNetworkByName(db, net).val.ID)) = 2
        /\ smGetLatestConfigVersion(db, smGetNetworkByName(db, net).val.ID).val.Version = 2

\* C24: delete-hub removes only the hub record and its name-index entry:
\* the member records of the network, their assigned addresses, the pool
\* cache and the persisted pool snapshots are what they were.
C24_DeleteHubFrame ==
    \A net \in NetworkNames :
        LET found  == smGetNetworkByName(db, net)
            server == smGetServerByNetworkID(db, found.val.ID)
            r      == vnmDeleteServer(db, ipPools, ids, net)
        IN  (found.err = "ok" /\ server.err = "ok") =>
               /\ r.ret.err = "ok"
               /\ r.db = [db EXCEPT
                            !.servers = Del(@, server.val.ID),
                            !.serversByName = Del(@, NameKey(found.val.ID, server.val.Name))]
               /\ r.ipPools = ipPools
               /\ r.ids = ids

\* the part of C24 about everything but the name index: the hub record is
\* gone and the members, their addresses and the pool state are untouched
C24_DeleteHubLeavesMembers ==
    \A net \in NetworkNames :
        LET found  == smGetNetworkByName(db, net)
            server == smGetServerByNetworkID(db, found.val.ID)
            r      == vnmDeleteServer(db, ipPools, ids, net)
        IN  (found.err = "ok" /\ server.err = "ok") =>
               /\ r.ret.err = "ok"
               /\ [r.db EXCEPT !.serversByName = EmptyFn]
                     = [db EXCEPT !.servers = Del(@, server.val.ID),
                                  !.serversByName = EmptyFn]
               /\ r.ipPools = ipPools
               /\ r.ids = ids

\* C25: deleting the server of a network also removes all nodes of that
\* network, and their addresses are returned to the pool: no node record of
\* the network is left, and no address of a former node is still allocated
\* in the cached pool or in the persisted snapshot.
C25_DeleteServerCascades ==
    \A net \in NetworkNames :
        LET found  == smGetNetworkByName(db, net)
            id     == found.val.ID
            server == smGetServerByNetworkID(db, id)
            nodes  == smListNodesByNetworkID(db, id).val
            r      == vnmDeleteServer(db, ipPools, ids, net)
        IN  (found.err = "ok" /\ server.err = "ok") =>
               /\ r.ret.err = "ok"
               /\ smListNodesByNetworkID(r.db, id).val = <<>>
               /\ \A k \in 1..Len(nodes) :
                     /\ id \in DOMAIN r.ipPools =>
                           nodes[k].VirtualIP \notin r.ipPools[id].allocated
                     /\ id \in DOMAIN r.db.ipPools =>
                           nodes[k].VirtualIP \notin r.db.ipPools[id].Allocated

\* CIDR texts of every sort: malformed, IPv6, and IPv4 blocks of 1, 2, 4, 8
\* and 256 addresses
CIDRSamples ==
    {BadCIDR, V6CIDR, V4(10, 0, 0, 1, 32), V4(10, 0, 0, 0, 31), V4(10, 0, 0, 9, 30),
     V4(192, 168, 1, 130, 29), V4(10, 0, 0, 0, 24)}

\* the addresses of an IPv4 block other than its network and broadcast
\* address
UsableAddresses(cidr) == 2 ^ (32 - cidr.ones) - 2

\* NewIPPool accepts exactly the IPv4 blocks with at least least usable
\* addresses, and a create-network with a rejected CIDR stores nothing and
\* caches no pool
RejectsBelow(least) ==
    \A cidr \in CIDRSamples :
        LET accepted == cidr.kind = "v4" /\ UsableAddresses(cidr) >= least IN
        /\ (NewIPPool(cidr).err = "ok") = accepted
        /\ \A net \in NetworkNames :
              LET r == vnmCreateVirtualNetwork(db, ipPools, ids, net, cidr) IN
              /\ ~accepted => /\ r.ret.err # "ok"
                              /\ r.db = db
                              /\ r.ipPools = ipPools
              /\ (accepted /\ smGetNetworkByName(db, net).err # "ok") =>
                    /\ r.ret.err = "ok"
                    /\ smGetNetworkByName(r.db, net).val.CIDR = cidr
                    /\ smGetNetworkByName(r.db, net).val.ID \in DOMAIN r.ipPools

\* C26: pool construction, and therefore create-network, rejects every CIDR
\* that is malformed, not IPv4, or whose block has 2 or fewer usable
\* addresses, and accepts every IPv4 block with at least 3; a rejected
\* create-network stores no network record and caches no pool.
C26_RejectsSmallBlocks == RejectsBelow(3)

\* what the code does: the least accepted block has 2 usable addresses
C26_RejectsTwoAddressBlocks == RejectsBelow(2)

\* the pool is what a fresh pool is after p.nextIndex - 1 successive
\* Allocate calls that succeeded: nothing recycled, and the addresses at the
\* indexes below the cursor allocated
AfterSuccessiveAllocates(p) ==
    /\ p.recycled = <<>>
    /\ p.allocated = {incrementTimes(p.firstUsable, j) : j \in 1..(p.nextIndex - 1)}

\* over a block with at least 3 usable addresses, exactly count successive
\* Allocate calls from a fresh pool succeed; the next one fails with
\* PoolExhausted and leaves the pool unchanged
ExhaustedAfter(count) ==
    (AfterSuccessiveAllocates(pool) /\ UsableAddresses(pool.networkCIDR) >= 3) =>
        LET r == AllocateNodeIP(pool) IN
        /\ (r.err = "ok") = (pool.nextIndex - 1 < count)
        /\ r.err # "ok" => r.err = "PoolExhausted" /\ r.pool = pool

\* total usable addresses minus 2 (network/broadcast) minus 1 (hub)
UsableForMembers(cidr) == UsableAddresses(cidr) - 2 - 1

\* the usable addresses but the hub's
AllButHub(cidr) == UsableAddresses(cidr) - 1

\* C28: from a fresh pool over an accepted block, the number of successive
\* Allocate calls that succeed before PoolExhausted is the usable-for-members
\* count, total usable addresses minus 2 minus 1; the next Allocate fails
\* with PoolExhausted and leaves the pool unchanged.
C28_ExhaustedAtMemberCount == ExhaustedAfter(UsableForMembers(pool.networkCIDR))

\* what the code does: every usable address but the hub's is handed out
C28_ExhaustedAtAllButHub == ExhaustedAfter(AllButHub(pool.networkCIDR))

\* the allocated set of the pool CreateNode works on: the cached pool, or
\* the one ensureIPPool restores or rebuilds when none is cached
AllocatedBefore(d, pools, network) ==
    LET ens == ensureIPPool(d, pools, network.ID, network.CIDR) IN
    IF ens.err = "ok" THEN ens.ipPools[network.ID].allocated ELSE {}

\* C27: a create-member that fails (validation error, duplicate name, pool
\* exhausted, key generation failure) rolls back: the member records and
\* their name index are what they were, the allocated set of the pool is the
\* set before the call, and an address it took is handed out by a later
\* Allocate.
C27_FailedCreateRollsBack ==
    \A net \in NetworkNames, name \in EntityNames, host \in Hosts \cup {""},
       type \in NodeTypes \cup {""}, fault \in {"none", "keygen"} :
        LET found == smGetNetworkByName(db, net)
            id    == found.val.ID
            ens   == ensureIPPool(db, ipPools, id, found.val.CIDR)
            r     == vnmCreateNode(db, ipPools, ids, net, name, host, 0, type, fault)
        IN  (found.err = "ok" /\ r.ret.err # "ok") =>
               /\ r.db.nodes = db.nodes
               /\ r.db.nodesByName = db.nodesByName
               /\ r.ids = ids
               /\ id \in DOMAIN r.ipPools =>
                     r.ipPools[id].allocated = AllocatedBefore(db, ipPools, found.val)
               /\ (ens.err = "ok" /\ id \in DOMAIN r.ipPools
                     /\ AllocateNodeIP(ens.ipPools[id]).err = "ok") =>
                     \E k \in 1..Len(r.ipPools[id].recycled) \cup {0} :
                        IF k = 0 THEN r.ipPools[id] = ens.ipPools[id]
                        ELSE r.ipPools[id].recycled[k] = AllocateNodeIP(ens.ipPools[id]).ip

\* a member exists, and creating one of the same name fails after an
\* address was allocated for it; and so does a creation whose key
\* generation fails
C27_Witness ==
    \E net \in NetworkNames, name \in EntityNames :
        LET found == smGetNetworkByName(db, net)
            dup   == vnmCreateNode(db, ipPools, ids, net, name, "vpn.example.com", 0,
                                   NodeTypePeer, "none")
            key   == vnmCreateNode(db, ipPools, ids, net, name, "vpn.example.com", 0,
                                   NodeTypePeer, "keygen")
        IN  /\ found.err = "ok"
            /\ smGetNodeByName(db, found.val.ID, name).err = "ok"
            /\ dup.ret.err = "DuplicateName"
            /\ dup.ipPools[found.val.ID].recycled # <<>>
            /\ key.ret.err = "KeyGenError"

\* the addresses of the stored hub and members of a network
HeldAddresses(d, networkID) ==
    {d.servers[k].VirtualIP : k \in {j \in DOMAIN d.servers : d.servers[j].NetworkID = networkID}}
        \cup {d.nodes[k].VirtualIP : k \in {j \in DOMAIN d.nodes : d.nodes[j].NetworkID = networkID}}

\* the pool ensureIPPool rebuilds when the member records come out of the
\* bucket in the given order (the keys are uuids): the hub marked, then the
\* members in that order, then the cursor resynced
ReconstructedIn(d, network, order) ==
    LET nodes  == smListNodesByNetworkID(d, network.ID).val
        server == smGetServerByNetworkID(d, network.ID)
        new    == NewIPPool(network.CIDR).pool
        marked == IF server.err = "ok"
                  THEN MarkIPAllocated(new, server.val.VirtualIP).pool
                  ELSE new
    IN  SyncNextIndex(markNodes(marked, [k \in 1..Len(nodes) |-> nodes[order[k]]]))

\* the database with no snapshot stored for the network
WithoutSnapshot(d, networkID) == [d EXCEPT !.ipPools = Del(@, networkID)]

\* C29: a pool reconstructed from the stored hub and member records, no
\* snapshot being stored, has for every order in which the records are
\* marked its cursor past every marked address, and no Allocate on it
\* returns an address held by a hub or a member.
C29_ReconstructionAvoidsHeld ==
    \A net \in NetworkNames :
        LET found == smGetNetworkByName(db, net)
            id    == found.val.ID
            d0    == WithoutSnapshot(db, id)
            held0 == HeldAddresses(db, id)
            n     == Len(smListNodesByNetworkID(db, id).val)
        IN  found.err = "ok" =>
               \A order \in RangeOrders(1..n) :
                   LET p == ReconstructedIn(d0, found.val, order)
                       r == AllocateNodeIP(p)
                   IN  /\ ensureIPPool(d0, EmptyFn, id, found.val.CIDR).ipPools[id] = p
                       /\ held0 \subseteq p.allocated
                       /\ p.recycled = <<>>
                       /\ \A a \in held0 \ {p.serverIP} : syncIndexOf(p, a) < p.nextIndex
                       /\ r.err = "ok" => r.ip \notin held0
                       /\ \A j \in p.nextIndex..Min(p.totalUsable - 1, p.nextIndex + MaxNodes) :
                             incrementTimes(p.firstUsable, j) \notin held0

\* a hub and two members stored and no pool cached: the reconstruction
\* that marks the member with the greater address first puts the cursor
\* past both
C29_Witness ==
    \E net \in NetworkNames :
        LET found == smGetNetworkByName(db, net)
            id    == found.val.ID
            nodes == smListNodesByNetworkID(db, id).val
        IN  /\ found.err = "ok"
            /\ ipPools = EmptyFn
            /\ smGetServerByNetworkID(db, id).err = "ok"
            /\ Len(nodes) = 2
            /\ nodes[1].VirtualIP # nodes[2].VirtualIP
            /\ ReconstructedIn(WithoutSnapshot(db, id), found.val, <<2, 1>>).nextIndex = 3

\* members stored, no snapshot stored and no pool cached: the next
\* ensureIPPool reconstructs the pool from the records
C29_WitnessNoSnapshot ==
    \E net \in NetworkNames :
        LET found == smGetNetworkByName(db, net)
            id    == found.val.ID
        IN  /\ found.err = "ok"
            /\ ipPools = EmptyFn
            /\ smGetIPPoolState(db, id).err # "ok"
            /\ Len(smListNodesByNetworkID(db, id).val) = 2

\* the orders 1, 2, ..., n: the records as the model's bucket lists them
InListOrder(d, networkID) ==
    [k \in 1..Len(smListNodesByNetworkID(d, networkID).val) |-> k]

\* what reconciliation has to do on database d with cache pools: use the
\* cached pool; else restore the stored snapshot; else reconstruct from the
\* records and store the reconstruction.  Only the last case writes.
ReconciledFrom(d, pools, network) ==
    LET id    == network.ID
        ens   == ensureIPPool(d, pools, id, network.CIDR)
        saved == smGetIPPoolState(d, id)
        built == ReconstructedIn(d, network, InListOrder(d, id))
    IN  /\ ens.err = "ok"
        /\ id \in DOMAIN pools =>
              /\ ens.ipPools = pools
              /\ ens.db = d
        /\ (id \notin DOMAIN pools /\ saved.err = "ok") =>
              /\ ens.ipPools = Put(pools, id, RestoreIPPool(saved.val).pool)
              /\ ens.db = d
        /\ (id \notin DOMAIN pools /\ saved.err # "ok") =>
              /\ ens.ipPools = Put(pools, id, built)
              /\ ens.db = [d EXCEPT !.ipPools = Put(@, id, GetState(built))]
        /\ saved.err = "ok" => ens.db.ipPools[id] = saved.val

\* C30: pool reconciliation takes the cached pool, else the persisted
\* snapshot, else a reconstruction from the records, and writes a snapshot
\* only when none was stored: a stored snapshot is left as it is.
C30_ReconcileOrder ==
    \A net \in NetworkNames :
        LET found == smGetNetworkByName(db, net) IN
        (found.err = "ok" /\ NewIPPool(found.val.CIDR).err = "ok") =>
           /\ ReconciledFrom(db, ipPools, found.val)
           /\ ReconciledFrom(db, EmptyFn, found.val)
           /\ ReconciledFrom(WithoutSnapshot(db, found.val.ID), ipPools, found.val)
           /\ ReconciledFrom(WithoutSnapshot(db, found.val.ID), EmptyFn, found.val)

\* a pool is cached and a snapshot is stored, and the snapshot restores to
\* another pool than the cached one
C30_Witness ==
    \E net \in NetworkNames :
        LET found == smGetNetworkByName(db, net)
            id    == found.val.ID
        IN  /\ found.err = "ok"
            /\ id \in DOMAIN ipPools
            /\ smGetIPPoolState(db, id).err = "ok"
            /\ RestoreIPPool(smGetIPPoolState(db, id).val).pool # ipPools[id]
            /\ smListNodesByNetworkID(db, id).val # <<>>

\* no pool is cached and no snapshot is stored: reconciliation reconstructs
\* and stores the reconstruction
C30_WitnessReconstruct ==
    \E net \in NetworkNames :
        LET found == smGetNetworkByName(db, net)
            id    == found.val.ID
            ens   == ensureIPPool(db, ipPools, id, found.val.CIDR)
        IN  /\ found.err = "ok"
            /\ id \notin DOMAIN ipPools
            /\ smGetIPPoolState(db, id).err # "ok"
            /\ ens.err = "ok"
            /\ smGetIPPoolState(ens.db, id).err = "ok"

\* the pool restored from the exported snapshot of p
Reimported(p) == RestoreIPPool(GetState(p)).pool

\* the call returns the same on p and on the pool restored from the
\* snapshot of p, and the pool it leaves behind when made on the restored
\* pool is the pool restored from the snapshot of what it leaves behind
\* when made on p
SameAfter(onOriginal, onRestored) ==
    /\ onRestored.err = onOriginal.err
    /\ onOriginal.err = "ok" => onRestored.pool = Reimported(onOriginal.pool)
    /\ onOriginal.err # "ok" => GetState(onRestored.pool) = GetState(onOriginal.pool)

\* C31: export followed by import of a pool snapshot preserves behaviour:
\* the restored pool has the CIDR, hub address, recycle FIFO and cursor of
\* the original, and every Allocate and Release returns on it what it
\* returns on the original and leaves the two pools related in the same
\* way, so that every later sequence of calls returns the same on both.
C31_ExportImportPreserves ==
    LET q == Reimported(pool) IN
    /\ RestoreIPPool(GetState(pool)).err = "ok"
    /\ q.networkCIDR = pool.networkCIDR
    /\ q.serverIP = pool.serverIP
    /\ q.recycled = pool.recycled
    /\ q.nextIndex = pool.nextIndex
    /\ q.firstUsable = pool.firstUsable
    /\ q.totalUsable = pool.totalUsable
    /\ q.allocated \ {q.serverIP} = pool.allocated \ {pool.serverIP}
    /\ GetState(q) = GetState(pool)
    /\ AllocateNodeIP(q).ip = AllocateNodeIP(pool).ip
    /\ SameAfter(AllocateNodeIP(pool), AllocateNodeIP(q))
    /\ \A ip \in ReleaseCandidates(pool) :
          SameAfter(ReleaseNodeIP(pool, ip), ReleaseNodeIP(q, ip))

\* a pool with an address held, one recycled and the cursor moved, whose
\* restored copy differs from it (the hub address is marked in the copy)
C31_Witness ==
    /\ pool.recycled # <<>>
    /\ pool.allocated # {}
    /\ pool.nextIndex > 2
    /\ Reimported(pool) # pool
    /\ AllocateNodeIP(Reimported(pool)).err = "ok"

\* ports an update may be called with
FramePorts == {0, DefaultPort, 8080}

\* the fields of a hub or member record an update has no business with
Identity(rec) ==
    [ID |-> rec.ID, NetworkID |-> rec.NetworkID, Name |-> rec.Name,
     VirtualIP |-> rec.VirtualIP, PrivateKey |-> rec.PrivateKey,
     PublicKey |-> rec.PublicKey]

\* from database d to database e the same hubs and members are stored, each
\* with the identity it had, under the same name index, and everything else
\* in the database is the same
OnlyEndpointsChanged(d, e) ==
    /\ DOMAIN e.servers = DOMAIN d.servers
    /\ \A k \in DOMAIN d.servers : Identity(e.servers[k]) = Identity(d.servers[k])
    /\ DOMAIN e.nodes = DOMAIN d.nodes
    /\ \A k \in DOMAIN d.nodes : Identity(e.nodes[k]) = Identity(d.nodes[k])
    /\ [e EXCEPT !.servers = EmptyFn, !.nodes = EmptyFn]
          = [d EXCEPT !.servers = EmptyFn, !.nodes = EmptyFn]

\* what update-hub and update-member do in the current state, whatever they
\* are called with
UpdateFrame ==
    \A net \in NetworkNames :
        /\ \A host \in AnyHosts, port \in FramePorts :
              LET r == vnmUpdateServer(db, ipPools, ids, net, host, port) IN
              /\ OnlyEndpointsChanged(db, r.db)
              /\ r.db.nodes = db.nodes
              /\ r.ipPools = ipPools
              /\ r.ids = ids
              /\ r.ret.err = "ok" =>
                    \A k \in DOMAIN db.servers :
                        r.db.servers[k] = [db.servers[k] EXCEPT !.PublicAddress = host,
                                                                !.Port = port]
        /\ \A name \in MemberNames, host \in AnyHosts, port \in FramePorts,
              type \in MemberTypes :
              LET r == vnmUpdateNode(db, ipPools, ids, net, name, host, port, type) IN
              /\ OnlyEndpointsChanged(db, r.db)
              /\ r.db.servers = db.servers
              /\ r.ipPools = ipPools
              /\ r.ids = ids
              /\ r.ret.err = "ok" =>
                    \A k \in DOMAIN db.nodes :
                        r.db.nodes[k] =
                            IF db.nodes[k].Name = name
                            THEN [db.nodes[k] EXCEPT !.PublicAddress = host,
                                                     !.Port = port, !.Type = type]
                            ELSE db.nodes[k]

\* a step keeps the identity of every hub and member it does not delete
IdentityKept ==
    /\ \A k \in DOMAIN db.servers \cap DOMAIN db'.servers :
          Identity(db'.servers[k]) = Identity(db.servers[k])
    /\ \A k \in DOMAIN db.nodes \cap DOMAIN db'.nodes :
          Identity(db'.nodes[k]) = Identity(db.nodes[k])

\* C32: update-hub and update-member change only public address, port and
\* (for a member) type: id, name, network id, assigned address and key pair
\* of every entity, the name index and the pool, cached and persisted, are
\* what they were; and no step changes the assigned address of an entity
\* that stays stored, so an address changes only by delete and create.
C32_UpdateFrame == []UpdateFrame /\ [][IdentityKept]_vars

\* a route member that an update turns into a peer with an address and
\* another port
C32_Witness ==
    \E net \in NetworkNames, name \in MemberNames :
        LET found == smGetNetworkByName(db, net)
            node  == smGetNodeByName(db, found.val.ID, name)
            r     == vnmUpdateNode(db, ipPools, ids, net, name, "vpn.example.com", 8080,
                                   NodeTypePeer)
        IN  /\ found.err = "ok"
            /\ node.err = "ok"
            /\ node.val.Type = NodeTypeRoute
            /\ r.ret.err = "ok"
            /\ r.db # db
            /\ vnmUpdateServer(db, ipPools, ids, net, "203.0.113.7", 8080).ret.err = "ok"

\* ports outside 1..65535 (0, the unspecified value, is not among them)
MalformedPorts == {p \in {-1, 65536, 70000} : ~ValidateEndpoint("vpn.example.com", p)}

\* the call was rejected and changed nothing
Rejected(r) ==
    /\ r.ret.err # "ok"
    /\ r.db = db
    /\ r.ipPools = ipPools
    /\ r.ids = ids

\* C33: create-hub, update-hub, create-member and update-member called with
\* a malformed port (outside 1..65535) are rejected and change no state.
C33_MalformedPortRejected ==
    \A net \in NetworkNames, name \in EntityNames, port \in MalformedPorts :
        /\ Rejected(vnmCreateServer(db, ipPools, ids, net, name, "vpn.example.com", port))
        /\ Rejected(vnmUpdateServer(db, ipPools, ids, net, "vpn.example.com", port))
        /\ Rejected(vnmCreateNode(db, ipPools, ids, net, name, "vpn.example.com", port,
                                  NodeTypePeer, "none"))
        /\ Rejected(vnmUpdateNode(db, ipPools, ids, net, name, "vpn.example.com", port,
                                  NodeTypePeer))

\* what the code does with a malformed port: a call that would succeed with
\* the default port succeeds with the malformed one and stores it
C33_MalformedPortStored ==
    \A net \in NetworkNames, name \in EntityNames, port \in MalformedPorts :
        LET found == smGetNetworkByName(db, net)
            hub   == vnmCreateServer(db, ipPools, ids, net, name, "vpn.example.com", port)
            node  == vnmCreateNode(db, ipPools, ids, net, name, "vpn.example.com", port,
                                   NodeTypePeer, "none")
        IN  /\ vnmCreateServer(db, ipPools, ids, net, name, "vpn.example.com",
                               DefaultPort).ret.err = "ok"
               => /\ hub.ret.err = "ok"
                  /\ smGetServerByNetworkID(hub.db, found.val.ID).val.Port = port
            /\ vnmCreateNode(db, ipPools, ids, net, name, "vpn.example.com", DefaultPort,
                             NodeTypePeer, "none").ret.err = "ok"
               => /\ node.ret.err = "ok"
                  /\ smGetNodeByName(node.db, found.val.ID, name).val.Port = port

\* C34: the type of every stored member is peer or route.
C34_TypeIsPeerOrRoute ==
    \A k \in DOMAIN db.nodes : db.nodes[k].Type \in {NodeTypePeer, NodeTypeRoute}

\* what holds: create-member stores peer or route whatever type it is
\* called with (the unspecified type becomes peer), and update-member
\* stores the type it is called with
C34_CreateStoresPeerOrRoute ==
    \A net \in NetworkNames, name \in MemberNames, host \in MemberHosts,
       type \in MemberTypes :
        LET found   == smGetNetworkByName(db, net)
            created == vnmCreateNode(db, ipPools, ids, net, name, host, 0, type, "none")
            updated == vnmUpdateNode(db, ipPools, ids, net, name, host, DefaultPort, type)
        IN  /\ created.ret.err = "ok" =>
                  smGetNodeByName(created.db, found.val.ID, name).val.Type
                      = IF type = "" THEN NodeTypePeer ELSE type
            /\ updated.ret.err = "ok" =>
                  smGetNodeByName(updated.db, found.val.ID, name).val.Type = type

\* the ids of the networks that were created and are deleted
DeletedNetworks == (1..ids.net) \ DOMAIN db.networks

\* Deleted is terminal: nothing is stored or cached for a deleted network
\* (the name index of the hubs apart, see C11), and no call creates
\* anything for it
C35_DeletedIsTerminal ==
    /\ \A k \in DOMAIN db.servers : db.servers[k].NetworkID \notin DeletedNetworks
    /\ \A k \in DOMAIN db.nodes : db.nodes[k].NetworkID \notin DeletedNetworks
    /\ \A k \in DOMAIN db.configs : db.configs[k].NetworkID \notin DeletedNetworks
    /\ DOMAIN db.ipPools \cap DeletedNetworks = {}
    /\ DOMAIN ipPools \cap DeletedNetworks = {}

\* a network that has a member has a hub
MembersHaveHub ==
    \A k \in DOMAIN db.nodes : smGetServerByNetworkID(db, db.nodes[k].NetworkID).err = "ok"

MemberUsable(p) ==
    {incrementTimes(p.firstUsable, j) : j \in 1..(p.totalUsable - 1)}

\* the addresses of the stored members of a network
MemberAddresses(d, networkID) ==
    {d.nodes[k].VirtualIP : k \in {j \in DOMAIN d.nodes : d.nodes[j].NetworkID = networkID}}

\* on database d with cache pools, a create-member in the network fails
\* with PoolExhausted only when every member-usable address is held by a
\* stored member
ExhaustedOnlyWhenFull(d, pools, i, net) ==
    LET found == smGetNetworkByName(d, net)
        id    == found.val.ID
        ens   == ensureIPPool(d, pools, id, found.val.CIDR)
        r     == vnmCreateNode(d, pools, i, net, "h", "", 0, NodeTypeRoute, "none")
    IN  (found.err = "ok" /\ r.ret.err = "PoolExhausted") =>
            MemberUsable(ens.ipPools[id]) \subseteq MemberAddresses(d, id)

\* names no member of the sample has
FillNames == <<"n1", "n2", "n3", "n4", "n5">>

\* the manager after creating, one after the other, members with the names
\* names[k], names[k + 1], ... until a creation fails
RECURSIVE Fill(_, _, _, _, _)
Fill(m, net, names, k, last) ==
    IF k > Len(names) \/ last # "ok" THEN m
    ELSE LET r == vnmCreateNode(m.db, m.ipPools, m.ids, net, names[k], "", 0,
                                NodeTypeRoute, "none")
         IN  Fill(r, net, names, k + 1, r.ret.err)

\* the manager restarted on the database d
Restarted(d, i) == [db |-> d, ipPools |-> EmptyFn, ids |-> i]

\* in the state the manager m is in after filling the network up,
\* create-member fails with PoolExhausted only when the block is full
FullWhenExhausted(m, net) ==
    LET filled == Fill(m, net, FillNames, 1, "ok")
    IN  ExhaustedOnlyWhenFull(filled.db, filled.ipPools, filled.ids, net)

\* C36: create-member fails with PoolExhausted only when every
\* member-usable address of the block is held by a live member, also when
\* the manager restarts after the snapshot was lost and reconstructs the
\* pool from the records, and however many members are created afterwards.
C36_ExhaustedOnlyWhenFull ==
    \A net \in NetworkNames :
        LET id == smGetNetworkByName(db, net).val.ID IN
        /\ ExhaustedOnlyWhenFull(db, ipPools, ids, net)
        /\ FullWhenExhausted(Restarted(db, ids), net)
        /\ FullWhenExhausted(Restarted(WithoutSnapshot(db, id), ids), net)

\* what holds as long as the snapshot is there: exhaustion means the block
\* is full, with the cache and after a restart
C36_ExhaustedOnlyWhenFullStored ==
    \A net \in NetworkNames :
        /\ ExhaustedOnlyWhenFull(db, ipPools, ids, net)
        /\ FullWhenExhausted([db |-> db, ipPools |-> ipPools, ids |-> ids], net)
        /\ FullWhenExhausted(Restarted(db, ids), net)

\* a block of 8 addresses: the hub and five members
LostCIDRs == {V4(192, 168, 1, 130, 29)}
LostNames == {"a", "b", "c"}

\* members come and go in one small network, the manager restarting at
\* any time
NextLost ==
    \/ \E name \in NetworkNames, cidr \in LostCIDRs : CreateVirtualNetwork(name, cidr)
    \/ \E net \in NetworkNames, name \in LostNames :
          CreateNode(net, name, "", 0, NodeTypeRoute, "none")
    \/ \E net \in NetworkNames, name \in LostNames : DeleteNode(net, name, "none")
    \/ Restart

SpecLost == Init /\ [][NextLost]_vars

\* the generated set of a network with a hub has one document per entity:
\* the hub's under the hub's name, each member's under its name
OneDocumentEach(net) ==
    LET found  == smGetNetworkByName(db, net)
        id     == found.val.ID
        server == smGetServerByNetworkID(db, id)
        nodes  == smListNodesByNetworkID(db, id).val
        gen    == GenerateConfigs(db, net)
    IN  /\ gen.err = "ok"
        /\ Cardinality(DOMAIN gen.configs) = 1 + Len(nodes)
        /\ server.val.Name \in DOMAIN gen.configs
        /\ gen.configs[server.val.Name] = generateServerConfig(server.val, nodes)
        /\ \A k \in 1..Len(nodes) :
              /\ nodes[k].Name \in DOMAIN gen.configs
              /\ gen.configs[nodes[k].Name]
                    = generateNodeConfig(found.val, server.val, nodes[k], nodes)

HasHub(net) ==
    /\ smGetNetworkByName(db, net).err = "ok"
    /\ smGetServerByNetworkID(db, smGetNetworkByName(db, net).val.ID).err = "ok"

C37_OneDocumentPerName ==
    \A net \in NetworkNames :
        LET id == smGetNetworkByName(db, net).val.ID IN
        (HasHub(net) /\ smGetNodeByName(db, id, smGetServerByNetworkID(db, id).val.Name).err # "ok")
            => OneDocumentEach(net)

\* the outcome of the next create-member of a network on the given cache
NextCreate(pools, net, name) ==
    vnmCreateNode(db, pools, ids, net, name, "vpn.example.com", 0, NodeTypePeer, "none").ret

\* C38: the pool cache is transparent: dropping it (a restart that reloads
\* the persisted snapshot) does not change the address a later create-member
\* is assigned, also after create-member calls that failed once an address
\* was taken.
C38_CacheTransparent ==
    \A net \in NetworkNames, name \in EntityNames :
        NextCreate(ipPools, net, name) = NextCreate(EmptyFn, net, name)

\* the cached pool of a network has at most one recycled address
ShortFIFO(net) ==
    LET found == smGetNetworkByName(db, net) IN
    (found.err = "ok" /\ found.val.ID \in DOMAIN ipPools)
        => Len(ipPools[found.val.ID].recycled) <= 1

\* what holds: the cache is transparent while at most one address waits in
\* the recycle FIFO
C38_TransparentShortFIFO ==
    \A net \in NetworkNames, name \in EntityNames :
        ShortFIFO(net) => NextCreate(ipPools, net, name) = NextCreate(EmptyFn, net, name)

\* the stored snapshot of a network agrees with its live member records:
\* its allocated list is the set of their addresses, and none of them is in
\* its recycle FIFO or at or past its cursor
SnapshotAgrees(d, networkID) ==
    LET state   == smGetIPPoolState(d, networkID)
        p       == RestoreIPPool(state.val).pool
        members == MemberAddresses(d, networkID)
    IN  state.err = "ok" =>
           /\ state.val.Allocated = members
           /\ \A ip \in members :
                 /\ \A k \in 1..Len(state.val.Recycled) : state.val.Recycled[k] # ip
                 /\ syncIndexOf(p, ip) < state.val.NextIndex

\* C39: after every manager operation that has returned, on a network with
\* a persisted pool snapshot the snapshot's allocated list equals the set of
\* addresses of the live member records, and its recycle FIFO and the range
\* at or past its cursor hold no address of a live member.
C39_SnapshotMatchesMembers ==
    \A id \in DOMAIN db.networks : SnapshotAgrees(db, id)

\* a network whose snapshot has a live member, a recycled address, and a
\* cached pool that a failed create-member made differ from the snapshot
C39_Witness ==
    \E id \in DOMAIN db.networks :
        LET state == smGetIPPoolState(db, id) IN
        /\ state.err = "ok"
        /\ MemberAddresses(db, id) # {}
        /\ state.val.Recycled # <<>>
        /\ id \in DOMAIN ipPools
        /\ GetState(ipPools[id]) # state.val

\* the network exists and no hub is stored for it
Hubless(net) ==
    /\ smGetNetworkByName(db, net).err = "ok"
    /\ smGetServerByNetworkID(db, smGetNetworkByName(db, net).val.ID).err # "ok"

\* C40: on a network with no hub, never created or deleted, generate and
\* save-version return an error and save-version appends no config
\* snapshot, whatever members exist.
C40_NoHubNoConfigs ==
    \A net \in TwoNetworkNames :
        Hubless(net) =>
            /\ GenerateConfigs(db, net).err # "ok"
            /\ wcgSaveConfigVersion(db, ids, net).err # "ok"
            /\ ~wcgSaveConfigVersion(db, ids, net).created
            /\ wcgSaveConfigVersion(db, ids, net).db = db
            /\ wcgSaveConfigVersion(db, ids, net).ids = ids

\* a network whose hub was deleted after a version was saved, with a member
C40_Witness ==
    \E net \in TwoNetworkNames :
        /\ Hubless(net)
        /\ MemberAddresses(db, smGetNetworkByName(db, net).val.ID) # {}
        /\ VersionsOf(db, smGetNetworkByName(db, net).val.ID) # {}

\* a network whose hub was never created, with a member
C40_WitnessNeverCreated ==
    \E net \in TwoNetworkNames :
        /\ Hubless(net)
        /\ MemberAddresses(db, smGetNetworkByName(db, net).val.ID) # {}
        /\ ids.srv = 0

====
